---- MODULE Spec2Model ----
(***************************************************************************)
(* Verification model of the amazon-order-trends ingestion job engine:     *)
(* the run endpoint (routes/ingestion.py), the manual job worker and the   *)
(* scheduled multi-user driver (services/ingestion_service.py), the        *)
(* ingestion generator main() with its standalone driver                   *)
(* (ingestion/ingestion_script.py) and the transactional cursor scope      *)
(* (shared/db.py); and of the price watch: the scraper and the hourly      *)
(* cycle (services/price_service.py), the tracked-item endpoints           *)
(* (routes/price_tracking.py) and the settings endpoint                    *)
(* (routes/settings.py).                                                   *)
(*                                                                         *)
(* Optional values (Python None / SQL NULL) are sequences of length <= 1:  *)
(* <<>> is None, <<x>> is the value x.                                     *)
(***************************************************************************)
EXTENDS Integers, Sequences, FiniteSets, Bags, TLC

\* ------------------------------------------------------------------ bounds
\* run requests a client issues
MaxJobs == 2

\* executions of the standalone script
MaxScriptRuns == 2

\* date.today() ranges over 1..MaxDay
MaxDay == 2

\* price-watch cycles the scheduler starts
MaxCycles == 2

\* rows of tracked_items
MaxItems == 2

\* --------------------------------------------------------------- constants
Users == {"u1", "u2"}
AdminUser == "u1"
OrderNums == {"o1", "o2"}

\* the order numbers of an account with more new orders than the pool has workers
PoolOrders == OrderNums \cup {"o3", "o4", "o5", "o6", "o7"}

\* order_placed_date of an order is a property of the order at the source
PlacedDate == [o \in PoolOrders |-> IF o = "o1" THEN 1 ELSE 2]
DefaultDays == 60
MaxAttempts == 3
MaxWorkers == 5
RouteDefaultDays == 60
ScheduledDays == 3

None == << >>
Some(x) == << x >>

\* Python truthiness of an optional text: None and '' are false
Falsy(t) == t = None \/ t[1] = << >>

\* request bodies of POST /api/ingestion/run: the 'days' key absent, null or a number
Bodies ==
    { [has |-> FALSE, days |-> None], [has |-> TRUE, days |-> None],
      [has |-> TRUE, days |-> Some(0)], [has |-> TRUE, days |-> Some(3)] }

\* item lines the source can report for an order: (title, unit price,
\* thumbnail); iA and iA2 share the upsert key (title, price)
iA == [title |-> "tA", price |-> 10, thumb |-> "x"]
iA2 == [title |-> "tA", price |-> 10, thumb |-> "y"]
iB == [title |-> "tB", price |-> 20, thumb |-> "x"]

\* order details get_order can return: the item lines and whether the order
\* carries a subscription discount (order.subscription_discount is not None)
Details ==
    { [items |-> << >>, sub |-> FALSE],
      [items |-> << iA >>, sub |-> FALSE],
      [items |-> << iA2, iB >>, sub |-> TRUE],
      [items |-> << iA, iA2 >>, sub |-> FALSE] }

VARIABLES
    today,          \* date.today(), a day number
    world,          \* the environment: the orders and details the source holds, which calls can fail
    user_settings,  \* table user_settings: per user the credentials and the scheduled-ingestion flag
    encKey,         \* whether ENCRYPTION_KEY is set in the environment
    orders,         \* table orders (committed rows), a bag of rows
    items,          \* table items (committed rows), a bag of rows
    jobs,           \* table ingestion_jobs, indexed by id
    reqs,           \* run requests being handled by run_ingestion_route
    runs,           \* the threads that drive an ingestion generator, and their generators
    tracked_items,  \* table tracked_items, indexed by id
    price_history,  \* table price_history, in the order of recorded_at
    sent,           \* the calls of send_price_drop_notification and send_discord_notification, in order
    cycle           \* the scheduler job update_all_prices: its position and locals

\* the variables of the price watch
priceVars == << tracked_items, price_history, sent, cycle >>

vars == << today, world, user_settings, encKey, orders, items, jobs, reqs, runs,
           priceVars >>

\* the scheduler job between two cycles; n counts the cycles started, got is
\* what the last call of get_amazon_price returned
IdleCycle ==
    [ pc |-> "idle", queue |-> << >>, n |-> 0,
      got |-> [price |-> None, title |-> None, currency |-> None] ]

\* no item is tracked and no cycle has run
NoPriceWatch ==
    /\ tracked_items = << >>
    /\ price_history = << >>
    /\ sent = << >>
    /\ cycle = IdleCycle

\* ------------------------------------------------------------ job records
NoProgress == None
Progress(v, m) == Some([value |-> v, max |-> m])

\* the row run_ingestion_route inserts: status 'pending', details {'log': ['Job created...']}
NewJobRow(u) ==
    [ user |-> Some(u), type |-> "manual", status |-> "pending",
      progress |-> NoProgress, log |-> << "Job created..." >>, error |-> None,
      users |-> << >>, seen |-> FALSE ]

NoTx == [open |-> FALSE, aborted |-> FALSE, orders |-> EmptyBag, items |-> EmptyBag]

\* a driver thread that has not started, with the locals of its generator
IdleRun ==
    [ driver |-> "manual", job |-> 0, wpc |-> "none", g |-> "none", user |-> "",
      override |-> None, days |-> 0, session |-> FALSE, exc |-> None,
      errorOccurred |-> FALSE, raised |-> None,
      nums |-> {}, total |-> 0, processed |-> 0, fut |-> << >>, cur |-> None,
      werr |-> {}, reqDays |-> None,
      tx |-> NoTx, nSettings |-> 0, nLogin |-> 0, nList |-> 0, nLogout |-> 0,
      ulist |-> << >>, idx |-> 0, umap |-> << >> ]

JobIds == 1..Len(jobs)
RunIds == 1..Len(runs)

\* ------------------------------------------------------- run_ingestion_route
\* SELECT id FROM ingestion_jobs WHERE user_id = u AND status = 'running' AND job_type = 'manual'
RunningManualJobs(u) ==
    { j \in JobIds : jobs[j].user = Some(u) /\ jobs[j].status = "running"
                     /\ jobs[j].type = "manual" }

\* days = data.get('days', 60)
BodyDays(body) == IF body.has THEN body.days ELSE Some(RouteDefaultDays)

\* the request handler up to the 409 check; a request that passes goes on to the insert
RouteCheck(u, body, dbg) ==
    /\ Len(reqs) < MaxJobs
    /\ reqs' = Append(reqs,
          [ user |-> u, days |-> BodyDays(body), debug |-> dbg, job |-> 0,
            pc |-> IF RunningManualJobs(u) # {} THEN "409" ELSE "insert" ])
    /\ UNCHANGED << priceVars, today, world, user_settings, encKey, orders, items, jobs, runs >>

\* INSERT INTO ingestion_jobs (...) VALUES (u, 'manual', 'pending', ...) RETURNING id
RouteInsert(r) ==
    /\ reqs[r].pc = "insert"
    /\ jobs' = Append(jobs, NewJobRow(reqs[r].user))
    /\ reqs' = [reqs EXCEPT ![r].pc = "spawn", ![r].job = Len(jobs) + 1]
    /\ UNCHANGED << priceVars, today, world, user_settings, encKey, orders, items, runs >>

\* def run_manual_ingestion_job(app, user_id, job_id, days)
JobParams == << "app", "user_id", "job_id", "days" >>

\* Thread.run calls target(*args): the call binds only when the number of
\* positional arguments is the number of parameters, otherwise it raises
\* TypeError in the new thread and the job function is never entered
ThreadCall(args) ==
    IF Len(args) = Len(JobParams)
    THEN [ IdleRun EXCEPT !.wpc = "entry", !.user = args[2], !.job = args[3],
                          !.override = args[4] ]
    ELSE [ IdleRun EXCEPT !.wpc = "typeerror", !.job = args[3] ]

\* args=(app, current_user_id, job_id, days, debug)
RouteArgs(r) ==
    << "app", reqs[r].user, reqs[r].job, reqs[r].days, reqs[r].debug >>

\* thread = threading.Thread(target=run_manual_ingestion_job, args=...); thread.start(); return 202
RouteSpawn(r) ==
    /\ reqs[r].pc = "spawn"
    /\ runs' = Append(runs, ThreadCall(RouteArgs(r)))
    /\ reqs' = [reqs EXCEPT ![r].pc = "202"]
    /\ UNCHANGED << priceVars, today, world, user_settings, encKey, orders, items, jobs >>

\* the call run_manual_ingestion_job(app, user_id, job_id, days) with the
\* arguments the signature declares
JobArgs(r) == << "app", reqs[r].user, reqs[r].job, reqs[r].days >>

JobCall(r) ==
    /\ reqs[r].pc = "spawn"
    /\ runs' = Append(runs, ThreadCall(JobArgs(r)))
    /\ reqs' = [reqs EXCEPT ![r].pc = "202"]
    /\ UNCHANGED << priceVars, today, world, user_settings, encKey, orders, items, jobs >>


\* str(e) of an exception that left the generator, as the drivers store it
ErrRaised(e) == [kind |-> "raised", exc |-> e, order |-> ""]
\* a handler that drops progress events instead of storing them
HandleEventNoProgress(row, kind, data) ==
    CASE kind = "status" -> [row EXCEPT !.log = Append(@, data)]
      [] kind = "error" ->
            [row EXCEPT !.log = Append(@, "ERROR"), !.error = Some(data),
                        !.status = "failed"]
      [] kind = "done" -> [row EXCEPT !.log = Append(@, data)]
      [] OTHER -> row

\* ------------------------------------------------ run_manual_ingestion_job
\* the for-loop body of the worker: what each event does to the job row
\* (every branch writes the row in its own committed transaction)
HandleEvent(row, kind, data) ==
    CASE kind = "status" -> [row EXCEPT !.log = Append(@, data)]
      [] kind = "progress" -> [row EXCEPT !.progress = Some(data)]
      [] kind = "error" ->
            [row EXCEPT !.log = Append(@, "ERROR"), !.error = Some(data),
                        !.status = "failed"]
      [] kind = "done" -> [row EXCEPT !.log = Append(@, data)]
      [] OTHER -> row

\* the scheduled driver's loop body: if event_type != 'progress':
\* details['users'][user_id]['log'].append(f"{event_type}: {data}")
SchedHandle(nr, kind, data) ==
    IF kind # "progress"
    THEN [nr EXCEPT !.umap[nr.user].log =
                        Append(@, IF kind = "error" THEN data.kind ELSE data)]
    ELSE nr

\* the generator of thread i, now in state nr, yields (kind, data) to its
\* driver: the manual worker writes the job row, the scheduled driver appends
\* to its in-memory details, the standalone script prints; the worker of
\* app.py applies the same four branches to its job_status dictionary
Yield(i, nr, kind, data) ==
    /\ runs' = [runs EXCEPT ![i] =
                   IF nr.driver = "scheduled" THEN SchedHandle(nr, kind, data) ELSE nr]
    /\ IF nr.driver \in {"manual", "legacy"}
       THEN jobs' = [jobs EXCEPT ![nr.job] = HandleEvent(@, kind, data)]
       ELSE UNCHANGED jobs

\* the generator moves to state nr without yielding
Silent(i, nr) ==
    /\ runs' = [runs EXCEPT ![i] = nr]
    /\ UNCHANGED jobs

\* the locals of a thread that has ended
Ended(r) == [ IdleRun EXCEPT !.driver = r.driver, !.job = r.job, !.wpc = "done" ]

\* UPDATE ingestion_jobs SET status = 'running', progress = {0,100},
\* details = {log: ['Job started...'], error: None} WHERE id = job_id;
\* then the generator object is created (its body has not started)
WorkerEntry(i) ==
    /\ runs[i].driver = "manual"
    /\ runs[i].wpc = "entry"
    /\ jobs' = [jobs EXCEPT ![runs[i].job].status = "running",
                            ![runs[i].job].progress = Progress(0, 100),
                            ![runs[i].job].log = << "Job started..." >>,
                            ![runs[i].job].error = None]
    /\ runs' = [runs EXCEPT ![i].wpc = "iter", ![i].g = "start"]
    /\ UNCHANGED << priceVars, today, world, user_settings, encKey, orders, items, reqs >>

\* a final update that does not look at the current status
FinalizeUnchecked(row) == [row EXCEPT !.status = "completed"]

\* SELECT status ...; if current_status == 'running': UPDATE ... SET status = 'completed'
Finalize(row) ==
    IF row.status = "running" THEN [row EXCEPT !.status = "completed"] ELSE row

\* an except branch that stores the status without the message
ExceptWithoutMessage(row, e) == [row EXCEPT !.status = "failed"]

\* except Exception as e: details['error'] = str(e); UPDATE ... SET status = 'failed'
Except(row, e) == [row EXCEPT !.status = "failed", !.error = Some(ErrRaised(e))]

WorkerFinalize(i) ==
    /\ runs[i].driver = "manual"
    /\ runs[i].wpc = "iter"
    /\ runs[i].g = "ended"
    /\ jobs' = [jobs EXCEPT ![runs[i].job] =
                   IF runs[i].raised # None THEN Except(@, runs[i].raised[1])
                   ELSE Finalize(@)]
    /\ runs' = [runs EXCEPT ![i].wpc = "finally"]
    /\ UNCHANGED << priceVars, today, world, user_settings, encKey, orders, items, reqs >>

\* SELECT id FROM users WHERE role = 'admin' ...; SELECT discord_webhook_url,
\* discord_notification_preference FROM user_settings WHERE user_id = admin:
\* the row, or None when the admin has no settings row; a row on which the
\* two columns were never set holds NULLs
AdminNotifySettings ==
    LET s == user_settings[AdminUser]
    IN  IF s.creds = "none" THEN None
        ELSE IF "hook" \in DOMAIN s
        THEN Some([webhook_url |-> s.hook, pref |-> s.pref])
        ELSE Some([webhook_url |-> None, pref |-> None])

\* a decision that sends whenever a webhook is set
ShouldSendAnyPreference(settings, job_has_error) ==
    /\ settings # None
    /\ ~Falsy(settings[1].webhook_url)

\* should_send: a webhook, and the preference 'always', or 'errors_only'
\* with an error in the job's details
ShouldSend(settings, job_has_error) ==
    /\ settings # None
    /\ ~Falsy(settings[1].webhook_url)
    /\ \/ settings[1].pref = Some("always")
       \/ settings[1].pref = Some("errors_only") /\ job_has_error

\* title = "Manual Ingestion Job Failed" if job_has_error else "... Completed"
JobTitle(job_has_error) ==
    IF job_has_error THEN "Manual Ingestion Job Failed"
    ELSE "Manual Ingestion Job Completed"

\* send_discord_notification(webhook_url, title, description, color, log);
\* delivered tells whether the POST to the webhook succeeded
JobNotification(j, webhook_url, job_has_error, ok) ==
    [ job |-> j, webhook_url |-> webhook_url, title |-> JobTitle(job_has_error),
      delivered |-> ok ]

\* finally: UPDATE ... SET updated_at; the notification check on the admin's
\* settings and the worker's details (every change of which the worker has
\* stored in the job row); a failed POST is logged and swallowed; the
\* thread ends
WorkerFinally(i) ==
    /\ runs[i].driver = "manual"
    /\ runs[i].wpc = "finally"
    /\ LET settings == AdminNotifySettings
           job_has_error == jobs[runs[i].job].error # None
       IN  IF ShouldSend(settings, job_has_error)
           THEN \E ok \in {TRUE, ~world.faults} :
                   sent' = Append(sent, JobNotification(runs[i].job, settings[1].webhook_url[1],
                                                        job_has_error, ok))
           ELSE sent' = sent
    /\ runs' = [runs EXCEPT ![i] = Ended(@)]
    /\ UNCHANGED << tracked_items, price_history, cycle, today, world, user_settings,
                    encKey, orders, items, jobs, reqs >>

\* ------------------------------------ ingestion_script.py run as a script
\* values of --days on the command line (absent is None)
ScriptDays == {None, Some(3)}

\* for event, payload in main(user_id=admin_id, manual_days_override=args.days)
ScriptStart(d) ==
    /\ Len(runs) < MaxScriptRuns
    /\ \A i \in RunIds : runs[i].wpc = "done"
    /\ runs' = Append(runs, [ IdleRun EXCEPT !.driver = "script", !.wpc = "iter",
                                             !.g = "start", !.user = AdminUser,
                                             !.override = d ])
    /\ UNCHANGED << priceVars, today, world, user_settings, encKey, orders, items, jobs, reqs >>

\* the generator is exhausted and the script exits
ScriptExit(i) ==
    /\ runs[i].driver = "script"
    /\ runs[i].wpc = "iter"
    /\ runs[i].g = "ended"
    /\ runs' = [runs EXCEPT ![i] = Ended(@)]
    /\ UNCHANGED << priceVars, today, world, user_settings, encKey, orders, items, jobs, reqs >>

\* the calendar day changes between two executions of the script
NextDay ==
    /\ today < MaxDay
    /\ \A i \in RunIds : runs[i].wpc = "done"
    /\ today' = today + 1
    /\ UNCHANGED << priceVars, world, user_settings, encKey, orders, items, jobs, reqs, runs >>


\* ------------------------------- run_scheduled_ingestion_job_stream
\* SELECT u.id ... WHERE s.enable_scheduled_ingestion = TRUE
EnabledUsers == { u \in Users : user_settings[u].sched }

\* the orders in which the SELECT (no ORDER BY) can return the rows of S
RowOrders(S) ==
    { s \in [1..Cardinality(S) -> S] : \A u \in S : \E k \in DOMAIN s : s[k] = u }

\* {'status': 'pending', 'username': ..., 'log': []}
PendingUser == [status |-> "pending", log |-> << >>, error |-> None]

\* a progress that counts the users still to be processed
SchedProgressRemaining(c, t) == Some([current |-> t - c, total |-> t])

\* {"current": c, "total": t}
SchedProgress(c, t) == Some([current |-> c, total |-> t])

\* the cron job / scheduler route: INSERT INTO ingestion_jobs (job_type, status)
\* VALUES ('scheduled', 'pending'); then the stream generator is drained
SchedCreate ==
    /\ jobs' = Append(jobs, [NewJobRow("") EXCEPT !.user = None, !.type = "scheduled",
                                                   !.log = << >>])
    /\ runs' = Append(runs, [IdleRun EXCEPT !.driver = "scheduled",
                                            !.job = Len(jobs) + 1, !.wpc = "entry"])
    /\ UNCHANGED << priceVars, today, world, user_settings, encKey, orders, items, reqs >>

\* step 1: the enabled users, details.users all 'pending', UPDATE ... 'running'
SchedStart(i) ==
    /\ runs[i].driver = "scheduled"
    /\ runs[i].wpc = "entry"
    /\ \E ul \in RowOrders(EnabledUsers) :
         LET um == [u \in EnabledUsers |-> PendingUser]
         IN  /\ runs' = [runs EXCEPT ![i].ulist = ul, ![i].idx = 0, ![i].umap = um,
                                     ![i].wpc = "loop"]
             /\ jobs' = [jobs EXCEPT ![runs[i].job].status = "running",
                                     ![runs[i].job].progress = SchedProgress(0, Len(ul)),
                                     ![runs[i].job].users = um]
    /\ UNCHANGED << priceVars, today, world, user_settings, encKey, orders, items, reqs >>

\* loop head for user_ids[idx]: status 'running', progress.current = idx,
\* UPDATE; the generator is created with manual_days_override=3
SchedBeginUser(i) ==
    /\ runs[i].driver = "scheduled"
    /\ runs[i].wpc = "loop"
    /\ runs[i].idx < Len(runs[i].ulist)
    /\ LET r == runs[i]
           u == r.ulist[r.idx + 1]
           um == [r.umap EXCEPT ![u].status = "running"]
       IN  /\ runs' = [runs EXCEPT ![i] =
                          [IdleRun EXCEPT !.driver = "scheduled", !.job = r.job,
                                          !.ulist = r.ulist, !.idx = r.idx, !.umap = um,
                                          !.wpc = "iter", !.g = "start", !.user = u,
                                          !.override = Some(ScheduledDays)]]
           /\ jobs' = [jobs EXCEPT ![r.job].progress = SchedProgress(r.idx, Len(r.ulist)),
                                   ![r.job].users = um]
    /\ UNCHANGED << priceVars, today, world, user_settings, encKey, orders, items, reqs >>

\* a driver that records every user whose generator ended as completed
UserResultAlwaysCompleted(entry, raised) == [entry EXCEPT !.status = "completed"]

\* the inner try: the for-loop over the generator ended ('completed') or an
\* exception left the generator ('failed', error = str(e)); UPDATE details
UserResult(entry, raised) ==
    IF raised # None
    THEN [entry EXCEPT !.status = "failed", !.error = Some(ErrRaised(raised[1]))]
    ELSE [entry EXCEPT !.status = "completed"]

SchedEndUser(i) ==
    /\ runs[i].driver = "scheduled"
    /\ runs[i].wpc = "iter"
    /\ runs[i].g = "ended"
    /\ LET r == runs[i]
           um == [r.umap EXCEPT ![r.user] = UserResult(@, r.raised)]
       IN  /\ runs' = [runs EXCEPT ![i] =
                          [IdleRun EXCEPT !.driver = "scheduled", !.job = r.job,
                                          !.ulist = r.ulist, !.idx = r.idx + 1,
                                          !.umap = um, !.wpc = "loop"]]
           /\ jobs' = [jobs EXCEPT ![r.job].users = um]
    /\ UNCHANGED << priceVars, today, world, user_settings, encKey, orders, items, reqs >>

\* step 3: progress.current = len(user_ids); UPDATE ... SET status = 'completed'
SchedFinish(i) ==
    /\ runs[i].driver = "scheduled"
    /\ runs[i].wpc = "loop"
    /\ runs[i].idx = Len(runs[i].ulist)
    /\ jobs' = [jobs EXCEPT ![runs[i].job].status = "completed",
                            ![runs[i].job].progress =
                                SchedProgress(Len(runs[i].ulist), Len(runs[i].ulist)),
                            ![runs[i].job].users = runs[i].umap]
    /\ runs' = [runs EXCEPT ![i] = Ended(@)]
    /\ UNCHANGED << priceVars, today, world, user_settings, encKey, orders, items, reqs >>

\* ------------------------------- status read and notification acknowledgement
\* the job ids a client can name: the existing ones and one that does not exist
NamedJobs == 1..(Len(jobs) + 1)

\* ... WHERE user_id = u AND job_type = 'manual' ORDER BY created_at DESC LIMIT 1
LatestManual(u) ==
    LET mine == { j \in JobIds : jobs[j].user = Some(u) /\ jobs[j].type = "manual" }
    IN  IF mine = {} THEN None ELSE Some(CHOOSE j \in mine : \A k \in mine : k <= j)

\* get_manual_ingestion_status with the job_id SELECT lacking its user_id
\* condition: a named job is returned whoever owns it
StatusRowAnyUser(u, param) ==
    IF param # None
    THEN IF param[1] \in JobIds THEN param ELSE None
    ELSE LatestManual(u)

\* the row get_manual_ingestion_status selects: the job named by job_id when
\* it belongs to the caller, the caller's latest manual job without a job_id
StatusRow(u, param) ==
    IF param # None
    THEN IF param[1] \in JobIds /\ jobs[param[1]].user = Some(u) THEN param ELSE None
    ELSE LatestManual(u)

\* show_notification = (status == 'completed' and not notification_seen)
StatusResponse(u, param) ==
    LET sel == StatusRow(u, param)
    IN  IF sel = None THEN None
        ELSE LET row == jobs[sel[1]]
             IN  Some([id |-> sel[1], status |-> row.status,
                       show_notification |-> (row.status = "completed" /\ ~row.seen),
                       notification_seen |-> row.seen])

\* the record of the latest status or acknowledgement call, kept after the
\* run request; its turn bit tells a call from the one before it
ApiCall(kind, u, param, resp) ==
    [pc |-> kind, user |-> u, job |-> param, resp |-> resp,
     turn |-> IF Len(reqs) = 2 THEN 1 - reqs[2].turn ELSE 0]

\* GET /api/ingestion/manual/status
StatusRead(u, param) ==
    /\ Len(reqs) >= 1
    /\ reqs' = << reqs[1], ApiCall("status", u, param, StatusResponse(u, param)) >>
    /\ UNCHANGED << priceVars, today, world, user_settings, encKey, orders, items, jobs, runs >>

\* the acknowledgement without the user_id condition of its WHERE clause
SetSeenAnyUser(tbl, u, j) ==
    [k \in DOMAIN tbl |->
        IF k = j THEN [tbl[k] EXCEPT !.seen = TRUE] ELSE tbl[k]]

\* UPDATE ingestion_jobs SET notification_seen = TRUE WHERE id = j AND user_id = u
SetSeen(tbl, u, j) ==
    [k \in DOMAIN tbl |->
        IF k = j /\ tbl[k].user = Some(u) THEN [tbl[k] EXCEPT !.seen = TRUE] ELSE tbl[k]]

\* POST /api/ingestion/jobs/seen
MarkNotificationSeen(u, j) ==
    /\ Len(reqs) >= 1
    /\ jobs' = SetSeen(jobs, u, j)
    /\ reqs' = << reqs[1], ApiCall("seen", u, Some(j), None) >>
    /\ UNCHANGED << priceVars, today, world, user_settings, encKey, orders, items, runs >>

\* ------------------------------ src/api/app.py: the in-process job map
\* In the specification of this endpoint `jobs` is the heap of job_status
\* dictionaries the workers have created, and `mapped` tells whether
\* manual_import_jobs holds the dictionary under its user's key.

\* manual_import_jobs.get(u): the dictionary stored under the key u, if any
MapEntry(u) ==
    LET held == { j \in JobIds : jobs[j].user = Some(u) /\ jobs[j].mapped }
    IN  IF held = {} THEN None ELSE Some(CHOOSE j \in held : TRUE)

\* manual_import_jobs.pop(u, None)
MapPop(tbl, u) ==
    [j \in DOMAIN tbl |->
        IF tbl[j].user = Some(u) THEN [tbl[j] EXCEPT !.mapped = FALSE] ELSE tbl[j]]

\* job_status = {"status": "running", "progress": {0, 100}, "log": ["Job started..."],
\*               "start_time": ..., "end_time": None, "error": None}
NewJobStatus(u) ==
    [ user |-> Some(u), status |-> "running", progress |-> Progress(0, 100),
      log |-> << "Job started..." >>, error |-> None, ended |-> FALSE,
      mapped |-> TRUE ]

\* run_ingestion_route of app.py: one critical section that answers 409 when
\* the user's entry is running and otherwise pops the entry; the lock is
\* released before the thread is created
LegacyRoute(u, body) ==
    /\ Len(reqs) < MaxJobs
    /\ LET e == MapEntry(u)
           busy == e # None /\ jobs[e[1]].status = "running"
       IN  /\ reqs' = Append(reqs,
                  [ user |-> u, days |-> BodyDays(body), debug |-> FALSE, job |-> 0,
                    pc |-> IF busy THEN "409" ELSE "spawn" ])
           /\ jobs' = IF busy THEN jobs ELSE MapPop(jobs, u)
    /\ UNCHANGED << priceVars, today, world, user_settings, encKey, orders, items, runs >>

\* threading.Thread(target=_run_manual_ingestion_job, args=(user, days)).start(); return 202
LegacySpawn(r) ==
    /\ reqs[r].pc = "spawn"
    /\ runs' = Append(runs, [ IdleRun EXCEPT !.driver = "legacy", !.wpc = "entry",
                                             !.user = reqs[r].user,
                                             !.override = reqs[r].days ])
    /\ reqs' = [reqs EXCEPT ![r].pc = "202"]
    /\ UNCHANGED << priceVars, today, world, user_settings, encKey, orders, items, jobs >>

\* the worker builds its job_status and, in a critical section of its own,
\* stores it under the user's key, replacing whatever the key held
LegacyEntry(i) ==
    /\ runs[i].driver = "legacy"
    /\ runs[i].wpc = "entry"
    /\ jobs' = Append(MapPop(jobs, runs[i].user), NewJobStatus(runs[i].user))
    /\ runs' = [runs EXCEPT ![i].wpc = "iter", ![i].g = "start",
                            ![i].job = Len(jobs) + 1]
    /\ UNCHANGED << priceVars, today, world, user_settings, encKey, orders, items, reqs >>

\* after the loop: if job_status['status'] == 'running': 'completed';
\* except Exception as e: status 'failed', error str(e)
LegacyFinalize(i) ==
    /\ runs[i].driver = "legacy"
    /\ runs[i].wpc = "iter"
    /\ runs[i].g = "ended"
    /\ jobs' = [jobs EXCEPT ![runs[i].job] =
                   IF runs[i].raised # None THEN Except(@, runs[i].raised[1])
                   ELSE Finalize(@)]
    /\ runs' = [runs EXCEPT ![i].wpc = "finally"]
    /\ UNCHANGED << priceVars, today, world, user_settings, encKey, orders, items, reqs >>

\* finally: job_status['end_time'] = now; the thread ends
LegacyFinally(i) ==
    /\ runs[i].driver = "legacy"
    /\ runs[i].wpc = "finally"
    /\ jobs' = [jobs EXCEPT ![runs[i].job].ended = TRUE]
    /\ runs' = [runs EXCEPT ![i] = Ended(@)]
    /\ UNCHANGED << priceVars, today, world, user_settings, encKey, orders, items, reqs >>
\* ------------------------------------------------- ingestion_script.main
GenAt(i, pc) == runs[i].wpc = "iter" /\ runs[i].g = pc

\* the tables and request records a generator step leaves alone
GenFrame == UNCHANGED << priceVars, today, world, user_settings, encKey, orders, items, reqs >>

ErrUnexpected(e) == [kind |-> "unexpected", exc |-> e, order |-> ""]
ErrOrder(o, e) == [kind |-> "order_db", exc |-> e, order |-> o]

\* an outer handler that swallows the exception without an error event
FailSilently(i, nr, e) ==
    Silent(i, [nr EXCEPT !.exc = Some(e), !.errorOccurred = TRUE, !.g = "fin"])

\* except Exception as e: yield from yield_and_log("error", ...); the
\* exception is not raised again, the generator goes on to its finally block
Fail(i, nr, e) ==
    Yield(i, [nr EXCEPT !.exc = Some(e), !.errorOccurred = TRUE, !.g = "fin"],
          "error", ErrUnexpected(e))

\* initialize_fernet(); get_settings(user_id): the exception raised, if any
SettingsError(u) ==
    IF ~encKey THEN Some("ENCRYPTION_KEY is not set.")
    ELSE IF user_settings[u].creds = "none" THEN Some("Settings not found")
    ELSE IF user_settings[u].creds = "incomplete" THEN Some("Amazon credentials are not fully configured.")
    ELSE None

\* the latest order date of the whole table, whoever owns the order
MaxDateAnyUser(u) ==
    LET ds == { r.date : r \in BagToSet(orders) }
    IN  IF ds = {} THEN None
        ELSE Some(CHOOSE d \in ds : \A e \in ds : e <= d)

\* SELECT MAX(order_placed_date) FROM orders WHERE user_id = u
MaxDate(u) ==
    LET ds == { r.date : r \in { x \in BagToSet(orders) : x.user = u } }
    IN  IF ds = {} THEN None
        ELSE Some(CHOOSE d \in ds : \A e \in ds : e <= d)

\* lines 121-134: the number of days to fetch and the status line announcing it
PlanDays(override, last) ==
    IF override # None THEN [days |-> override[1], msg |-> "override"]
    ELSE IF last # None THEN [days |-> today - last[1], msg |-> "incremental"]
    ELSE [days |-> DefaultDays, msg |-> "initial"]

\* first segment of the generator: settings, then window planning
GenPlan(i) ==
    /\ GenAt(i, "start")
    /\ LET r == [runs[i] EXCEPT !.nSettings = @ + 1]
           se == SettingsError(r.user)
       IN  IF se # None THEN Fail(i, r, se[1])
           ELSE \E dbFault \in {FALSE, world.faults} :
                  IF dbFault /\ r.override = None
                  THEN Fail(i, r, "db_error")
                  ELSE /\ dbFault = FALSE
                       /\ LET p == PlanDays(r.override, MaxDate(r.user))
                          IN  Yield(i, [r EXCEPT !.days = p.days, !.g = "planned"],
                                    "status", p.msg)
    /\ GenFrame

\* a day-count test that lets a count of zero through to the login
GenCheckDaysNegativeOnly(i) ==
    /\ GenAt(i, "planned")
    /\ IF runs[i].days < 0
       THEN Yield(i, [runs[i] EXCEPT !.g = "fin"], "status", "up_to_date")
       ELSE Yield(i, [runs[i] EXCEPT !.g = "login"], "status", "logging_in")
    /\ GenFrame

\* if days_to_fetch <= 0: "All orders are up to date."; return
GenCheckDays(i) ==
    /\ GenAt(i, "planned")
    /\ IF runs[i].days <= 0
       THEN Yield(i, [runs[i] EXCEPT !.g = "fin"], "status", "up_to_date")
       ELSE Yield(i, [runs[i] EXCEPT !.g = "login"], "status", "logging_in")
    /\ GenFrame

\* session = AmazonSession(...); session.login()
GenLogin(i) ==
    /\ GenAt(i, "login")
    /\ LET r == [runs[i] EXCEPT !.session = TRUE, !.nLogin = @ + 1]
       IN  \E ok \in BOOLEAN :
             IF ok THEN Yield(i, [r EXCEPT !.g = "loggedin"], "status", "login_ok")
             ELSE Fail(i, r, "login_failed")
    /\ GenFrame

GenAnnounceList(i) ==
    /\ GenAt(i, "loggedin")
    /\ Yield(i, [runs[i] EXCEPT !.g = "list"], "status", "fetching_tx")
    /\ GenFrame

\* transactions = get_transactions(days); order_numbers = {t.order_number ...}
GenList(i) ==
    /\ GenAt(i, "list")
    /\ LET r == [runs[i] EXCEPT !.nList = @ + 1, !.reqDays = Some(runs[i].days)]
       IN  \/ Fail(i, r, "listing_failed")
           \/ \E listed \in SUBSET world.catalog :
                IF listed = {}
                THEN Yield(i, [r EXCEPT !.g = "fin"], "status", "no_orders")
                ELSE Yield(i, [r EXCEPT !.nums = listed, !.g = "dedup"],
                           "status", "found_orders")
    /\ GenFrame

\* a duplicate check that compares against the orders of the other users
ExistingOrdersOfOthers(u, nums) ==
    { o \in nums : \E r \in BagToSet(orders) : r.id = o /\ r.user # u }

\* SELECT order_id FROM orders WHERE user_id = u AND order_id = ANY(nums)
ExistingOrders(u, nums) ==
    { o \in nums : \E r \in BagToSet(orders) : r.id = o /\ r.user = u }

\* a duplicate check that announces the stored orders and leaves them in
GenDedupKeepsAll(i) ==
    /\ GenAt(i, "dedup")
    /\ LET r == runs[i]
           ex == ExistingOrders(r.user, r.nums)
       IN  IF ex # {}
           THEN Yield(i, [r EXCEPT !.g = "filtered"], "status", "found_existing")
           ELSE Yield(i, [r EXCEPT !.total = Cardinality(r.nums), !.g = "prog0"],
                      "progress", [value |-> 0, max |-> Cardinality(r.nums)])
    /\ GenFrame

GenDedup(i) ==
    /\ GenAt(i, "dedup")
    /\ LET r == runs[i]
           ex == ExistingOrders(r.user, r.nums)
       IN  IF ex # {}
           THEN Yield(i, [r EXCEPT !.nums = @ \ ex, !.g = "filtered"],
                      "status", "found_existing")
           ELSE Yield(i, [r EXCEPT !.total = Cardinality(r.nums), !.g = "prog0"],
                      "progress", [value |-> 0, max |-> Cardinality(r.nums)])
    /\ GenFrame

GenAfterFilter(i) ==
    /\ GenAt(i, "filtered")
    /\ LET r == runs[i]
       IN  IF r.nums = {}
           THEN Yield(i, [r EXCEPT !.g = "fin"], "status", "no_new")
           ELSE Yield(i, [r EXCEPT !.total = Cardinality(r.nums), !.g = "prog0"],
                      "progress", [value |-> 0, max |-> Cardinality(r.nums)])
    /\ GenFrame

GenAnnounceNew(i) ==
    /\ GenAt(i, "prog0")
    /\ Yield(i, [runs[i] EXCEPT !.g = "submit"], "status", "found_new")
    /\ GenFrame

\* a submitted fetch_order_with_retries task as the generator sees it
NewFuture == [st |-> "queued", res |-> None, taken |-> FALSE]

\* executor.submit for every order number; with get_db_cursor(commit=True) as cur
GenSubmit(i) ==
    /\ GenAt(i, "submit")
    /\ Silent(i, [runs[i] EXCEPT
            !.fut = [o \in runs[i].nums |-> NewFuture],
            !.tx = [open |-> TRUE, aborted |-> FALSE, orders |-> orders, items |-> items],
            !.g = "wait"])
    /\ GenFrame

\* ------------------------------------------- the fetch pool (lines 180-197)
Running(i) == { o \in DOMAIN runs[i].fut : runs[i].fut[o].st = "running" }

\* a pool that starts a thread for every queued task
PoolStartUnbounded(i, o) ==
    /\ runs[i].wpc = "iter"
    /\ o \in DOMAIN runs[i].fut
    /\ runs[i].fut[o].st = "queued"
    /\ Silent(i, [runs[i] EXCEPT !.fut[o].st = "running"])
    /\ GenFrame

\* a pool thread picks a queued task: ThreadPoolExecutor(max_workers=5)
PoolStart(i, o) ==
    /\ runs[i].wpc = "iter"
    /\ o \in DOMAIN runs[i].fut
    /\ runs[i].fut[o].st = "queued"
    /\ Cardinality(Running(i)) < MaxWorkers
    /\ Silent(i, [runs[i] EXCEPT !.fut[o].st = "running"])
    /\ GenFrame

\* the locals of fetch_order_with_retries before its first attempt
NewTask == [calls |-> 0, sleeps |-> 0, res |-> None, returned |-> FALSE]

\* a retry loop that sleeps after every failed attempt, the last one included
AttemptAlwaysSleeps(t, out) ==
    IF out.ok THEN [t EXCEPT !.calls = @ + 1, !.res = Some(out.d), !.returned = TRUE]
    ELSE [t EXCEPT !.calls = @ + 1,
                   !.sleeps = @ + 1,
                   !.returned = (t.calls + 1 >= MaxAttempts)]

\* one iteration of `for attempt in range(3)`: t is the task before the
\* get_order call, out the outcome of the call
Attempt(t, out) ==
    IF out.ok THEN [t EXCEPT !.calls = @ + 1, !.res = Some(out.d), !.returned = TRUE]
    ELSE [t EXCEPT !.calls = @ + 1,
                   !.sleeps = IF t.calls < MaxAttempts - 1 THEN @ + 1 ELSE @,
                   !.returned = (t.calls + 1 >= MaxAttempts)]

RECURSIVE FetchLoop(_, _)
FetchLoop(t, outs) ==
    IF t.returned THEN t ELSE FetchLoop(Attempt(t, outs[t.calls + 1]), outs)

\* fetch_order_with_retries(order_num), given the outcomes of its get_order calls
FetchOrderWithRetries(outs) == FetchLoop(NewTask, outs)

\* what the source does on successive get_order calls for one order: it
\* fails k times, then answers with detail d
Outcomes(k, d) == [n \in 1..MaxAttempts |-> [ok |-> n > k, d |-> d]]

\* a pool thread runs a task to its return; the task touches nothing but its
\* own locals and the error_occurred flag
PoolRun(i, o) ==
    /\ runs[i].wpc = "iter"
    /\ o \in DOMAIN runs[i].fut
    /\ runs[i].fut[o].st = "running"
    /\ \E k \in world.fails, d \in world.details :
         LET t == FetchOrderWithRetries(Outcomes(k, d))
         IN  Silent(i, [runs[i] EXCEPT
                 !.fut[o].st = "done",
                 !.fut[o].res = t.res,
                 !.errorOccurred = @ \/ t.res = None])
    /\ GenFrame

\* a completion loop that counts only the fetches that returned an order
GenTakeCountsResults(i, o) ==
    /\ GenAt(i, "wait")
    /\ o \in DOMAIN runs[i].fut
    /\ runs[i].fut[o].st = "done"
    /\ ~runs[i].fut[o].taken
    /\ LET r == runs[i]
           n == IF r.fut[o].res = None THEN r.processed ELSE r.processed + 1
       IN  Yield(i, [r EXCEPT !.fut[o].taken = TRUE, !.processed = n,
                              !.cur = Some(o), !.g = "taken"],
                 "progress", [value |-> n, max |-> r.total])
    /\ GenFrame

\* for future in as_completed(...): order = future.result(); processed_count += 1;
\* yield "progress", {value: processed_count, max: total_orders}
GenTake(i, o) ==
    /\ GenAt(i, "wait")
    /\ o \in DOMAIN runs[i].fut
    /\ runs[i].fut[o].st = "done"
    /\ ~runs[i].fut[o].taken
    /\ LET r == runs[i]
       IN  Yield(i, [r EXCEPT !.fut[o].taken = TRUE, !.processed = @ + 1,
                              !.cur = Some(o), !.g = "taken"],
                 "progress", [value |-> r.processed + 1, max |-> r.total])
    /\ GenFrame

\* ------------------------------------------------ the writes (lines 207-229)
\* the columns the claims are about; asin, link and quantity are written
\* once with the row and never read back by the engine
OrderRow(o, u) == [id |-> o, user |-> u, date |-> PlacedDate[o]]
ItemRow(o, it, d) ==
    [order |-> o, title |-> it.title, price |-> it.price, thumb |-> it.thumb, sns |-> d.sub]

\* INSERT INTO orders ... ON CONFLICT (order_id) DO NOTHING
InsertOrder(tbl, row) ==
    IF \E r \in BagToSet(tbl) : r.id = row.id THEN tbl
    ELSE tbl (+) SetToBag({row})

SameItemKey(a, b) == a.order = b.order /\ a.title = b.title /\ a.price = b.price

\* INSERT INTO items ... ON CONFLICT (order_id, full_title, price_per_unit)
\* DO UPDATE SET is_subscribe_and_save = EXCLUDED..., thumbnail_url = EXCLUDED...
UpsertItem(tbl, row) ==
    LET hit == { r \in BagToSet(tbl) : SameItemKey(r, row) }
    IN  IF hit = {} THEN tbl (+) SetToBag({row})
        ELSE [ r \in BagToSet(tbl) \ hit |-> tbl[r] ]
             (+) SetToBag({ [r EXCEPT !.thumb = row.thumb, !.sns = row.sns] : r \in hit })

RECURSIVE UpsertItems(_, _, _, _, _)

\* the first n item statements of `for item in order.items`
UpsertItems(tbl, o, d, k, n) ==
    IF k > n THEN tbl
    ELSE UpsertItems(UpsertItem(tbl, ItemRow(o, d.items[k], d)), o, d, k + 1, n)

\* where the writes of one order can raise: kind "py" is an exception of the
\* Python code before statement `at` is sent, kind "db" an error of statement
\* `at` itself; statement 0 is the order insert, statement k the k-th item
Faults(d) ==
    { [kind |-> "none", at |-> 0] }
    \cup IF world.faults THEN [kind : {"py", "db"}, at : 0..Len(d.items)] ELSE {}

\* the try-block of one order run on the cursor's transaction tx: the
\* transaction afterwards and the exception that escaped, if any.  After a
\* failed statement PostgreSQL rejects every later statement of the
\* transaction (InFailedSqlTransaction) until it is rolled back.
PersistOrder(tx, u, o, d, fault) ==
    IF fault.kind = "py" /\ fault.at = 0
    THEN [tx |-> tx, exc |-> Some("py_error")]
    ELSE IF tx.aborted
    THEN [tx |-> tx, exc |-> Some("in_failed_transaction")]
    ELSE IF fault.kind = "db" /\ fault.at = 0
    THEN [tx |-> [tx EXCEPT !.aborted = TRUE], exc |-> Some("db_error")]
    ELSE LET n == IF fault.kind = "none" THEN Len(d.items) ELSE fault.at - 1
             t1 == [tx EXCEPT !.orders = InsertOrder(@, OrderRow(o, u)),
                              !.items = UpsertItems(@, o, d, 1, n)]
         IN  IF fault.kind = "none" THEN [tx |-> t1, exc |-> None]
             ELSE IF fault.kind = "py" THEN [tx |-> t1, exc |-> Some("py_error")]
             ELSE [tx |-> [t1 EXCEPT !.aborted = TRUE], exc |-> Some("db_error")]

\* if not order or not order.items: continue; else the try-block
GenPersist(i) ==
    /\ GenAt(i, "taken")
    /\ LET r == runs[i]
           o == r.cur[1]
           res == r.fut[o].res
       IN  IF res = None \/ Len(res[1].items) = 0
           THEN Silent(i, [r EXCEPT !.g = "wait"])
           ELSE \E fault \in Faults(res[1]) :
                  LET p == PersistOrder(r.tx, r.user, o, res[1], fault)
                  IN  IF p.exc = None
                      THEN Silent(i, [r EXCEPT !.tx = p.tx, !.g = "wait"])
                      ELSE Yield(i, [r EXCEPT !.tx = p.tx, !.errorOccurred = TRUE,
                                              !.werr = @ \cup {o}, !.g = "wait"],
                                 "error", ErrOrder(o, p.exc[1]))
    /\ GenFrame

\* a cursor scope opened without commit=True: its writes are never committed
CommitNever(tx, committed) == committed

\* get_db_cursor: leaving the with-block runs conn.commit(); a COMMIT of a
\* transaction in the failed state rolls it back
Commit(tx, committed) == IF tx.aborted THEN committed ELSE tx

\* the loop is exhausted: commit, executor shutdown, "Successfully processed ..."
GenEndLoop(i) ==
    /\ GenAt(i, "wait")
    /\ \A o \in DOMAIN runs[i].fut : runs[i].fut[o].taken
    /\ LET r == runs[i]
           c == Commit(r.tx, [orders |-> orders, items |-> items])
       IN  /\ orders' = c.orders
           /\ items' = c.items
           /\ Yield(i, [r EXCEPT !.tx.open = FALSE, !.g = "processed"],
                    "status", "processed_all")
    /\ UNCHANGED << priceVars, today, world, user_settings, encKey, reqs >>

\* yield "done", "Import complete."
GenDone(i) ==
    /\ GenAt(i, "processed")
    /\ Yield(i, [runs[i] EXCEPT !.g = "fin"], "done", "Import complete.")
    /\ GenFrame

\* a finally block that leaves the session open after an error
GenFinallySkipsAfterError(i) ==
    /\ GenAt(i, "fin")
    /\ IF runs[i].session /\ runs[i].exc = None
       THEN \E bad \in {FALSE, world.faults} :
              IF bad
              THEN Silent(i, [runs[i] EXCEPT !.nLogout = @ + 1, !.g = "ended",
                                             !.raised = Some("logout_failed")])
              ELSE Yield(i, [runs[i] EXCEPT !.nLogout = @ + 1, !.g = "closing"],
                         "status", "logged_out")
       ELSE Silent(i, [runs[i] EXCEPT !.g = "ended"])
    /\ GenFrame

\* finally: if session: session.logout(); yield status "Amazon session logged out."
GenFinally(i) ==
    /\ GenAt(i, "fin")
    /\ IF runs[i].session
       THEN \E bad \in {FALSE, world.faults} :
              IF bad
              THEN Silent(i, [runs[i] EXCEPT !.nLogout = @ + 1, !.g = "ended",
                                             !.raised = Some("logout_failed")])
              ELSE Yield(i, [runs[i] EXCEPT !.nLogout = @ + 1, !.g = "closing"],
                         "status", "logged_out")
       ELSE Silent(i, [runs[i] EXCEPT !.g = "ended"])
    /\ GenFrame

\* the generator body ends: StopIteration reaches the driver's for-loop
GenStop(i) ==
    /\ GenAt(i, "closing")
    /\ Silent(i, [runs[i] EXCEPT !.g = "ended"])
    /\ GenFrame

\* one step of some generator: the segment between two yields, or a pool task
Generator ==
    \/ \E i \in RunIds : GenPlan(i)
    \/ \E i \in RunIds : GenCheckDays(i)
    \/ \E i \in RunIds : GenLogin(i)
    \/ \E i \in RunIds : GenAnnounceList(i)
    \/ \E i \in RunIds : GenList(i)
    \/ \E i \in RunIds : GenDedup(i)
    \/ \E i \in RunIds : GenAfterFilter(i)
    \/ \E i \in RunIds : GenAnnounceNew(i)
    \/ \E i \in RunIds : GenSubmit(i)
    \/ \E i \in RunIds, o \in world.catalog : PoolStart(i, o)
    \/ \E i \in RunIds, o \in world.catalog : PoolRun(i, o)
    \/ \E i \in RunIds, o \in world.catalog : GenTake(i, o)
    \/ \E i \in RunIds : GenPersist(i)
    \/ \E i \in RunIds : GenEndLoop(i)
    \/ \E i \in RunIds : GenDone(i)
    \/ \E i \in RunIds : GenFinally(i)
    \/ \E i \in RunIds : GenStop(i)

\* one step of some manual job's worker thread outside the generator
Worker ==
    \/ \E i \in RunIds : WorkerEntry(i)
    \/ \E i \in RunIds : WorkerFinalize(i)
    \/ \E i \in RunIds : WorkerFinally(i)

\* ----------------------------------------------------------- specifications
\* credentials configurations of the two users
Settings(c, s) == [creds |-> c, sched |-> s]
AllOk == [u \in Users |-> Settings("ok", TRUE)]
SettingsConfigs ==
    { AllOk,
      [AllOk EXCEPT !["u1"].creds = "incomplete"],
      [AllOk EXCEPT !["u1"].creds = "none"] }

FullWorld ==
    [catalog |-> OrderNums, faults |-> TRUE, details |-> Details,
     fails |-> 0..MaxAttempts]

\* a source account with the one order o1, and a database that answers every
\* statement
SmallWorld ==
    [catalog |-> {"o1"}, faults |-> FALSE, details |-> Details,
     fails |-> 0..MaxAttempts]

\* what the store holds when a run starts: nothing, or what an earlier run of
\* u1 left (order o1 with its one item line)
PriorStores ==
    { [orders |-> EmptyBag, items |-> EmptyBag],
      [orders |-> SetToBag({OrderRow("o1", "u1")}),
       items |-> SetToBag({ItemRow("o1", iA, [items |-> << iA >>, sub |-> FALSE])})] }

\* The standalone script run repeatedly for the admin user on an initially
\* empty store.
InitScript ==
    /\ today \in 1..MaxDay
    /\ world = FullWorld
    /\ user_settings = AllOk
    /\ encKey = TRUE
    /\ orders = EmptyBag
    /\ items = EmptyBag
    /\ jobs = << >>
    /\ reqs = << >>
    /\ runs = << >>
    /\ NoPriceWatch

NextScript ==
    \/ \E d \in ScriptDays : ScriptStart(d)
    \/ NextDay
    \/ \E i \in RunIds : ScriptExit(i)
    \/ Generator

SpecScript == InitScript /\ [][NextScript]_vars

\* The manual job: one run request of a client, and the job function called
\* with the arguments its signature declares.
InitJob ==
    /\ today \in 1..MaxDay
    /\ world = FullWorld
    /\ user_settings \in SettingsConfigs
    /\ encKey \in BOOLEAN
    /\ encKey = FALSE => user_settings = AllOk
    /\ \E s \in PriorStores : orders = s.orders /\ items = s.items
    /\ jobs = << >>
    /\ reqs = << >>
    /\ runs = << >>
    /\ NoPriceWatch

NextJob ==
    \/ \E u \in Users, b \in Bodies : reqs = << >> /\ RouteCheck(u, b, FALSE)
    \/ \E r \in 1..Len(reqs) : RouteInsert(r)
    \/ \E r \in 1..Len(reqs) : JobCall(r)
    \/ Worker
    \/ Generator

SpecJob == InitJob /\ [][NextJob]_vars

\* Concurrent run requests served by the endpoint, each job function called
\* with the arguments its signature declares.
InitRace ==
    /\ today = 1
    /\ world = SmallWorld
    /\ user_settings = AllOk
    /\ encKey = TRUE
    /\ orders = EmptyBag
    /\ items = EmptyBag
    /\ jobs = << >>
    /\ reqs = << >>
    /\ runs = << >>
    /\ NoPriceWatch

\* the bodies the concurrent clients send: no 'days' key, or days = 0
RaceBodies == { b \in Bodies : ~b.has \/ b.days = Some(0) }

\* the user whose clients race
RaceUsers == {"u1"}

NextRace ==
    \/ \E u \in RaceUsers, b \in RaceBodies : RouteCheck(u, b, FALSE)
    \/ \E r \in 1..Len(reqs) : RouteInsert(r)
    \/ \E r \in 1..Len(reqs) : JobCall(r)
    \/ Worker
    \/ Generator

SpecRace == InitRace /\ [][NextRace]_vars

\* One scheduled job over the users enabled for scheduled ingestion.
SchedConfigs == SettingsConfigs \cup { [AllOk EXCEPT !["u2"].sched = FALSE] }

InitSched ==
    /\ today = 1
    /\ world = FullWorld
    /\ user_settings \in SchedConfigs
    /\ encKey = TRUE
    /\ \E s \in PriorStores : orders = s.orders /\ items = s.items
    /\ jobs = << >>
    /\ reqs = << >>
    /\ runs = << >>
    /\ NoPriceWatch

NextSched ==
    \/ jobs = << >> /\ SchedCreate
    \/ \E i \in RunIds : SchedStart(i)
    \/ \E i \in RunIds : SchedBeginUser(i)
    \/ \E i \in RunIds : SchedEndUser(i)
    \/ \E i \in RunIds : SchedFinish(i)
    \/ Generator

SpecSched == InitSched /\ [][NextSched]_vars

\* The run endpoint as written: the worker thread is started with the
\* argument tuple of routes/ingestion.py line 46.
Init ==
    /\ today = 1
    /\ world = FullWorld
    /\ user_settings = AllOk
    /\ encKey = TRUE
    /\ orders = EmptyBag
    /\ items = EmptyBag
    /\ jobs = << >>
    /\ reqs = << >>
    /\ runs = << >>
    /\ NoPriceWatch

Next ==
    \/ \E u \in Users, b \in Bodies, dbg \in BOOLEAN : RouteCheck(u, b, dbg)
    \/ \E r \in 1..Len(reqs) : RouteInsert(r)
    \/ \E r \in 1..Len(reqs) : RouteSpawn(r)

Spec == Init /\ [][Next]_vars

\* The retry loop of one pool task attempt by attempt, for the tasks of the
\* orders of one run.  A pool thread is a record of runs: the order number,
\* what the source answers on successive get_order calls, and the locals of
\* fetch_order_with_retries.
CallOutcomes ==
    { [n \in 1..MaxAttempts |-> [ok |-> oks[n], d |-> d]] :
          oks \in [1..MaxAttempts -> BOOLEAN], d \in Details }

InitFetch ==
    /\ today = 1
    /\ world = FullWorld
    /\ user_settings = AllOk
    /\ encKey = TRUE
    /\ orders = EmptyBag
    /\ items = EmptyBag
    /\ jobs = << >>
    /\ reqs = << >>
    /\ runs = << >>
    /\ NoPriceWatch

\* executor.submit(fetch_order_with_retries, num)
FetchSubmit(o, outs) ==
    /\ \A k \in RunIds : runs[k].order # o
    /\ runs' = Append(runs, [order |-> o, outs |-> outs, t |-> NewTask])
    /\ UNCHANGED << priceVars, today, world, user_settings, encKey, orders, items, jobs, reqs >>

\* one iteration of the for-loop of the task of pool thread k
FetchAttempt(k) ==
    /\ ~runs[k].t.returned
    /\ runs' = [runs EXCEPT ![k].t = Attempt(@, runs[k].outs[@.calls + 1])]
    /\ UNCHANGED << priceVars, today, world, user_settings, encKey, orders, items, jobs, reqs >>

NextFetch ==
    \/ \E o \in OrderNums, outs \in CallOutcomes : FetchSubmit(o, outs)
    \/ \E k \in RunIds : FetchAttempt(k)

SpecFetch == InitFetch /\ [][NextFetch]_vars

\* One execution of the script for an account with six new orders beside the
\* one an earlier run stored, each with one item line, every source and
\* database call answering at once.
PoolWorld ==
    [catalog |-> PoolOrders, faults |-> FALSE,
     details |-> { [items |-> << iA >>, sub |-> FALSE] }, fails |-> {0}]

InitPool ==
    /\ today = 1
    /\ world = PoolWorld
    /\ user_settings = AllOk
    /\ encKey = TRUE
    /\ \E s \in PriorStores :
         s.orders # EmptyBag /\ orders = s.orders /\ items = s.items
    /\ jobs = << >>
    /\ reqs = << >>
    /\ runs = << >>
    /\ NoPriceWatch

NextPool ==
    \/ \E d \in ScriptDays : runs = << >> /\ ScriptStart(d)
    \/ \E i \in RunIds : ScriptExit(i)
    \/ Generator

SpecPool == InitPool /\ [][NextPool]_vars

\* One manual job, called with the arguments its signature declares, for an
\* account with one order, on an empty store or on one that holds the order
\* already, while the clients of both users poll the status and acknowledge
\* notifications.
InitSeen ==
    /\ today = 1
    /\ world = [SmallWorld EXCEPT !.faults = TRUE]
    /\ user_settings = AllOk
    /\ encKey = TRUE
    /\ \E s \in PriorStores : orders = s.orders /\ items = s.items
    /\ jobs = << >>
    /\ reqs = << >>
    /\ runs = << >>
    /\ NoPriceWatch

NextSeen ==
    \/ \E u \in Users, b \in RaceBodies : reqs = << >> /\ RouteCheck(u, b, FALSE)
    \/ \E r \in 1..Len(reqs) : RouteInsert(r)
    \/ \E r \in 1..Len(reqs) : JobCall(r)
    \/ Worker
    \/ Generator
    \/ \E u \in Users, j \in NamedJobs : StatusRead(u, Some(j))
    \/ \E u \in Users : StatusRead(u, None)
    \/ \E u \in Users, j \in NamedJobs : MarkNotificationSeen(u, j)

SpecSeen == InitSeen /\ [][NextSeen]_vars

\* Concurrent run requests of one user served by the endpoint of app.py with
\* its in-process job map.
InitMap ==
    /\ today = 1
    /\ world = SmallWorld
    /\ user_settings = AllOk
    /\ encKey = TRUE
    /\ orders = EmptyBag
    /\ items = EmptyBag
    /\ jobs = << >>
    /\ reqs = << >>
    /\ runs = << >>
    /\ NoPriceWatch

NextMap ==
    \/ \E u \in RaceUsers, b \in RaceBodies : LegacyRoute(u, b)
    \/ \E r \in 1..Len(reqs) : LegacySpawn(r)
    \/ \E i \in RunIds : LegacyEntry(i)
    \/ \E i \in RunIds : LegacyFinalize(i)
    \/ \E i \in RunIds : LegacyFinally(i)
    \/ Generator

SpecMap == InitMap /\ [][NextMap]_vars

\* ===================================================== the price watch
\* A text is a sequence of tokens; the empty sequence is the empty string.
\* A price text is a sequence of characters.

\* ------------------------------------------------------- get_amazon_price
\* if "CAPTCHA" in page_title_text or "Robot Check" in page_title_text
BlockMarkers == { "CAPTCHA", "Robot Check" }

\* a block-page test that knows one marker only
BlockedCaptchaOnly(text) == \E k \in 1..Len(text) : text[k] = "CAPTCHA"

Blocked(text) == \E k \in 1..Len(text) : text[k] \in BlockMarkers

\* page_title_text.replace("Amazon.com: ", "").replace(" : Amazon.com", "").strip()
CleanTitle(text) ==
    LET keep(tok) == tok \notin { "Amazon.com: ", " : Amazon.com" }
    IN  SelectSeq(text, keep)

\* the first of a list of optional texts that is truthy, None if there is none
RECURSIVE FirstTruthy(_)
FirstTruthy(cands) ==
    IF cands = << >> THEN None
    ELSE IF ~Falsy(Head(cands)) THEN Head(cands)
    ELSE FirstTruthy(Tail(cands))

\* 1. Extract Title: #productTitle, meta title, og:title, h1, the cleaned
\* page title, and "Unknown Product" when all of them are missing or empty
ExtractTitle(page, page_title_text) ==
    LET found == FirstTruthy(<< page.productTitle, page.metaTitle, page.ogTitle,
                                page.h1, Some(CleanTitle(page_title_text)) >>)
    IN  IF found = None THEN << "Unknown Product" >> ELSE found[1]

Digits == { "0", "1", "2", "3", "4", "5", "6", "7", "8", "9" }

DigitValue(c) == CHOOSE d \in 0..9 : ToString(d) = c

\* the value of a sequence of digit characters
RECURSIVE Number(_)
Number(ds) ==
    IF ds = << >> THEN 0
    ELSE 10 * Number(SubSeq(ds, 1, Len(ds) - 1)) + DigitValue(ds[Len(ds)])

\* text.rstrip('.')
RECURSIVE RStripDot(_)
RStripDot(text) ==
    IF text # << >> /\ text[Len(text)] = "."
    THEN RStripDot(SubSeq(text, 1, Len(text) - 1)) ELSE text

\* 2. Extract Price: the text of the first price element the selectors find,
\* in the order '.a-price .a-offscreen' (first match in the document,
\* whatever section it is in), #priceblock_ourprice, #priceblock_dealprice,
\* '.a-price-whole' with '.a-price-fraction'
PriceText(page) ==
    IF page.offscreen # << >> THEN Some(page.offscreen[1].text)
    ELSE IF page.ourprice # None THEN page.ourprice
    ELSE IF page.dealprice # None THEN page.dealprice
    ELSE IF page.whole # None /\ page.fraction # None
         THEN Some(RStripDot(page.whole[1]) \o << "." >> \o page.fraction[1])
    ELSE page.whole

\* float(re.sub(r'[^\d.]', '', price_text)), None on ValueError. The value is
\* kept in cents; the texts of this model have at most two decimals.
ParsePrice(price_text) ==
    LET numeric(c) == c \in Digits \cup { "." }
        clean == SelectSeq(price_text, numeric)
        dots == { k \in 1..Len(clean) : clean[k] = "." }
        dot == IF dots = {} THEN Len(clean) + 1 ELSE CHOOSE k \in dots : TRUE
        whole == SubSeq(clean, 1, dot - 1)
        frac == SubSeq(clean, dot + 1, Len(clean))
    IN  IF Cardinality(dots) > 1 \/ Len(clean) = Cardinality(dots)
        THEN None
        ELSE Some(100 * Number(whole)
                  + (IF Len(frac) = 0 THEN 0
                     ELSE IF Len(frac) = 1 THEN 10 * Number(frac)
                     ELSE Number(SubSeq(frac, 1, 2))))

\* what every failure of the call returns
NoResult == [price |-> None, title |-> None, currency |-> None]

\* get_amazon_price(url) for the page the url answers with. A failed request
\* raises RequestException; a <title> element without a string raises in
\* soup.title.string.strip(); both handlers return (None, None, None)
GetAmazonPrice(page) ==
    IF page.fails THEN NoResult
    ELSE IF page.pageTitle # None /\ page.pageTitle[1] = None THEN NoResult
    ELSE LET page_title_text ==
                 IF page.pageTitle = None THEN << >> ELSE page.pageTitle[1][1]
             price_text == PriceText(page)
         IN  IF Blocked(page_title_text) THEN NoResult
             ELSE [ price |-> IF price_text = None \/ price_text[1] = << >>
                              THEN None ELSE ParsePrice(price_text[1]),
                    title |-> Some(ExtractTitle(page, page_title_text)),
                    currency |-> Some("$") ]

\* price texts as the page shows them
Txt849 == << "$", "8", ".", "4", "9" >>
Txt1999 == << "$", "1", "9", ".", "9", "9" >>
TxtThousand == << "$", "1", ",", "2", "3", "4", ".", "5", "0" >>

\* a price element of the document: the section it stands in and its text
PriceElem(section, text) == [section |-> section, text |-> text]

\* the pages a product url can answer with: a failed request, a page with no
\* <title>, with an empty one, with a product title or with a block page's
\* title, with any subset of the title and price elements, the main price
\* element in the product's own block, in a similar-items section, or in both
Pages ==
    [ fails : BOOLEAN,
      available : BOOLEAN,
      pageTitle : { None, Some(None), Some(Some(<< "Amazon.com: ", "Widget" >>)),
                    Some(Some(<< "Robot Check" >>)),
                    Some(Some(<< "Amazon.com ", "CAPTCHA" >>)) },
      productTitle : { None, Some(<< "Widget" >>) },
      metaTitle : { None, Some(<< >>) },
      ogTitle : { None, Some(<< "Widget og" >>) },
      h1 : { None, Some(<< "Widget h1" >>) },
      offscreen : { << >>, << PriceElem("core", Txt1999) >>,
                    << PriceElem("similar", Txt849) >>,
                    << PriceElem("core", Txt1999), PriceElem("similar", Txt849) >> },
      ourprice : { None, Some(TxtThousand) },
      dealprice : { None, Some(<< "$" >>) },
      whole : { None, Some(<< "8", "." >>) },
      fraction : { None, Some(<< "4", "9" >>) } ]

\* ------------------------------------------------------- update_all_prices
ItemIds == 1..Len(tracked_items)

\* NOW(): the day and the number of cycles started so far
Now == << today, cycle.n >>

\* a query that returns the oldest row: ORDER BY recorded_at ASC LIMIT 1
LastEntryOldest(id) ==
    LET mine == { k \in 1..Len(price_history) : price_history[k].tracked_item_id = id }
    IN  IF mine = {} THEN None
        ELSE Some(price_history[CHOOSE k \in mine : \A m \in mine : k <= m])

\* SELECT price, recorded_at FROM price_history WHERE tracked_item_id = id
\* ORDER BY recorded_at DESC LIMIT 1
LastEntry(id) ==
    LET mine == { k \in 1..Len(price_history) : price_history[k].tracked_item_id = id }
    IN  IF mine = {} THEN None
        ELSE Some(price_history[CHOOSE k \in mine : \A m \in mine : m <= k])

\* SELECT id, url, user_id, notification_threshold_type,
\*        notification_threshold_value, name, is_custom_name FROM tracked_items
Snapshot(id) ==
    [ id |-> id, url |-> tracked_items[id].url, user_id |-> tracked_items[id].user_id,
      threshold_type |-> tracked_items[id].notification_threshold_type,
      threshold_value |-> tracked_items[id].notification_threshold_value,
      current_name |-> tracked_items[id].name,
      is_custom_name |-> tracked_items[id].is_custom_name ]

\* the fetchall() of the cycle's first transaction
RECURSIVE Snapshots(_)
Snapshots(n) == IF n = 0 THEN << >> ELSE Append(Snapshots(n - 1), Snapshot(n))

\* the name the cycle writes: the stored one when the item is custom-named
\* and has a name, else the scraped title, else the stored name, else
\* "Unknown Product"
CycleTitle(item, title) ==
    IF item.is_custom_name /\ ~Falsy(item.current_name) THEN item.current_name
    ELSE IF ~Falsy(title) THEN title
    ELSE IF ~Falsy(item.current_name) THEN item.current_name
    ELSE Some(<< "Unknown Product" >>)

\* a compaction that looks at the price only
ShouldInsertOnChangeOnly(last_entry, price) ==
    last_entry = None \/ price # last_entry[1].price

\* should_insert: no entry yet, another price, or the last entry is older
\* than today
ShouldInsert(last_entry, price) ==
    \/ last_entry = None
    \/ price # last_entry[1].price
    \/ last_entry[1].recorded_at < today

\* Prices are Python floats. Between two prices in cents the double
\* difference and percentage are off by far less than a cent, so they compare
\* with a whole threshold as the decimal values do, except when the decimal
\* value equals the threshold and the double value is below it. The pairs
\* (last price, price) of the prices of this model, in cents, for which
\* abs(price - last_price) is below the decimal difference
\* (14.99 - 19.99 gives -4.999999999999998):
DifferenceBelow == { << 1999, 1499 >> }

\* and those for which abs((price - last_price) / last_price * 100) is below
\* the decimal percentage
PercentBelow == { << 1999, 1499 >>, << 9000, 8000 >>, << 9500, 8000 >>, << 9500, 9000 >> }

\* abs(price_change) >= float(threshold_value), the threshold in dollars
MeetsAbsolute(last_price, price, threshold) ==
    \/ last_price - price > 100 * threshold
    \/ /\ last_price - price = 100 * threshold
       /\ << last_price, price >> \notin DifferenceBelow

\* abs(price_change_percent) >= float(threshold_value)
MeetsPercent(last_price, price, threshold) ==
    \/ (last_price - price) * 100 > threshold * last_price
    \/ /\ (last_price - price) * 100 = threshold * last_price
       /\ << last_price, price >> \notin PercentBelow

\* should_notify: a drop, a configured threshold value, and the drop meets it
\* in the unit of the threshold type
ShouldNotify(item, last_entry, price) ==
    /\ last_entry # None
    /\ price < last_entry[1].price
    /\ item.threshold_value # None
    /\ \/ /\ item.threshold_type = Some("percent")
          /\ MeetsPercent(last_entry[1].price, price, item.threshold_value[1])
       \/ /\ item.threshold_type = Some("absolute")
          /\ MeetsAbsolute(last_entry[1].price, price, item.threshold_value[1])

\* SELECT price_change_notification_webhook_url FROM user_settings WHERE user_id = u
WebhookUrl(u) ==
    IF user_settings[u] = None THEN None
    ELSE user_settings[u][1].price_change_notification_webhook_url

\* send_price_drop_notification(webhook_url, item_name, current_price, previous_price, url)
Notification(webhook_url, item, title, price, last_price) ==
    [ webhook_url |-> webhook_url, item_name |-> title, current_price |-> price,
      previous_price |-> last_price, url |-> item.url ]

\* an update that stamps the item and leaves its price as it was
StorePriceKeepsPrice(item, price, title) ==
    [tracked_items EXCEPT ![item.id].last_checked = Now,
                          ![item.id].name = IF title = None THEN @ ELSE title]

\* UPDATE tracked_items SET current_price, last_checked = NOW(),
\* name = COALESCE(title, name) WHERE id = item.id
StorePrice(item, price, title) ==
    [tracked_items EXCEPT ![item.id].current_price = Some(price),
                          ![item.id].last_checked = Now,
                          ![item.id].name = IF title = None THEN @ ELSE title]

\* a failure branch that stores the missing price
MarkCheckedClearsPrice(item) ==
    [tracked_items EXCEPT ![item.id].last_checked = Now,
                          ![item.id].current_price = None]

\* UPDATE tracked_items SET last_checked = NOW() WHERE id = item.id
MarkChecked(item) == [tracked_items EXCEPT ![item.id].last_checked = Now]

\* the cycle starts: the items are read in a transaction of their own; with
\* no item the function returns
CycleStart ==
    /\ cycle.pc = "idle"
    /\ cycle.n < MaxCycles
    /\ cycle' = [cycle EXCEPT !.pc = IF tracked_items = << >> THEN "idle" ELSE "loop",
                              !.queue = Snapshots(Len(tracked_items)),
                              !.n = @ + 1]
    /\ UNCHANGED << today, world, user_settings, encKey, orders, items, jobs, reqs,
                    runs, tracked_items, price_history, sent >>

\* one pass of the loop body for the next item of the snapshot, whose url
\* answers with the given page: the fetch, then one committed transaction
CycleItem(page) ==
    /\ cycle.pc = "loop"
    /\ LET item == Head(cycle.queue)
           got == GetAmazonPrice(page)
           title == CycleTitle(item, got.title)
           last_entry == LastEntry(item.id)
       IN  IF got.price # None
           THEN LET price == got.price[1]
                    webhook_url == WebhookUrl(item.user_id)
                IN  /\ tracked_items' = StorePrice(item, price, title)
                    /\ price_history' =
                          IF ShouldInsert(last_entry, price)
                          THEN Append(price_history,
                                      [ tracked_item_id |-> item.id, price |-> price,
                                        recorded_at |-> today ])
                          ELSE price_history
                    /\ sent' =
                          IF ShouldNotify(item, last_entry, price) /\ ~Falsy(webhook_url)
                          THEN Append(sent, Notification(webhook_url[1], item, title[1],
                                                         price, last_entry[1].price))
                          ELSE sent
           ELSE /\ tracked_items' = MarkChecked(item)
                /\ UNCHANGED << price_history, sent >>
    /\ cycle' = [cycle EXCEPT !.queue = Tail(@), !.got = GetAmazonPrice(page),
                              !.pc = IF Len(cycle.queue) = 1 THEN "idle" ELSE "loop"]
    /\ UNCHANGED << today, world, user_settings, encKey, orders, items, jobs, reqs, runs >>

\* ------------------------------------------------- routes/price_tracking.py
\* the product urls a client submits
Urls == { "https://www.amazon.com/dp/B000000001", "https://a.co/d/short" }

\* extract_asin: the ten characters after /dp/ or /gp/product/, if any
ExtractAsin(url) ==
    IF url = "https://www.amazon.com/dp/B000000001" THEN Some("B000000001") ELSE None

\* SELECT id FROM tracked_items WHERE user_id = u AND asin = a   (asin found)
\* SELECT id FROM tracked_items WHERE user_id = u AND url = url  (otherwise)
AlreadyTracked(u, url) ==
    \E id \in ItemIds :
        /\ tracked_items[id].user_id = u
        /\ IF ExtractAsin(url) # None THEN tracked_items[id].asin = ExtractAsin(url)
           ELSE tracked_items[id].url = url

\* INSERT INTO tracked_items (user_id, asin, url, name, current_price,
\* currency, last_checked): the columns the statement does not name keep
\* their defaults
NewTrackedItem(u, url, got) ==
    [ user_id |-> u, asin |-> ExtractAsin(url), url |-> url, name |-> got.title,
      current_price |-> got.price, last_checked |-> Now,
      notification_threshold_type |-> None, notification_threshold_value |-> None,
      is_custom_name |-> FALSE ]

\* the request bodies of POST /api/tracked-items; an absent key is None
AddBodies ==
    [ url : { None } \cup { Some(x) : x \in Urls },
      notification_threshold_type : { None, Some("percent") },
      notification_threshold_value : { None, Some(10) } ]

\* POST /api/tracked-items for a url that answers with the given page
AddTrackedItem(u, data, page) ==
    /\ Len(tracked_items) < MaxItems
    /\ data.url # None
    /\ ~AlreadyTracked(u, data.url[1])
    /\ LET got == GetAmazonPrice(page)
           id == Len(tracked_items) + 1
       IN  /\ tracked_items' = Append(tracked_items, NewTrackedItem(u, data.url[1], got))
           /\ price_history' =
                 IF got.price # None
                 THEN Append(price_history, [ tracked_item_id |-> id, price |-> got.price[1],
                                              recorded_at |-> today ])
                 ELSE price_history
    /\ UNCHANGED << today, world, user_settings, encKey, orders, items, jobs, reqs,
                    runs, sent, cycle >>

\* name.strip()
Strip(text) ==
    LET blank(tok) == tok # " "
    IN  SelectSeq(text, blank)

\* the names a client sends in PUT /api/tracked-items/<id>
NewNames == { None, Some(<< >>), Some(<< " " >>), Some(<< "My widget" >>) }

\* PUT /api/tracked-items/<id>: 400 without a name, else
\* UPDATE tracked_items SET name = name.strip() WHERE id = id AND user_id = u
UpdateTrackedItem(u, id, name) ==
    /\ ~Falsy(name)
    /\ Strip(name[1]) # << >>
    /\ id \in ItemIds
    /\ tracked_items[id].user_id = u
    /\ tracked_items' = [tracked_items EXCEPT ![id].name = Some(Strip(name[1]))]
    /\ UNCHANGED << today, world, user_settings, encKey, orders, items, jobs, reqs,
                    runs, price_history, sent, cycle >>

\* ------------------------------------------------------ routes/settings.py
\* fernet.encrypt(password.encode('utf-8'))
Encrypt(password) == [fernet |-> password]

\* a row of user_settings: the columns save_user_settings can write and one
\* it cannot
SettingsRow(email, pw, otp, hook, ttype, tvalue, discord) ==
    [ amazon_email |-> email, amazon_password_encrypted |-> pw,
      amazon_otp_secret_key |-> otp,
      price_change_notification_webhook_url |-> hook,
      default_notification_threshold_type |-> ttype,
      default_notification_threshold_value |-> tvalue,
      discord_webhook_url |-> discord ]

\* the row INSERT creates for the columns it does not name
DefaultSettings == SettingsRow(None, None, None, None, None, None, None)

\* fields_map: the request keys copied to the column of the same name
FieldsMap ==
    { "amazon_email", "amazon_otp_secret_key", "price_change_notification_webhook_url",
      "default_notification_threshold_type", "default_notification_threshold_value" }

\* the request bodies of POST /api/settings/user: per key None when the key
\* is absent, Some(v) when it is present with value v (v = None is JSON null)
SettingsBodies ==
    [ amazon_password : { None, Some(None), Some(Some(<< >>)), Some(Some(<< "pw2" >>)) },
      amazon_email : { None, Some(Some(<< "new@example.com" >>)) },
      amazon_otp_secret_key : { None, Some(None) },
      price_change_notification_webhook_url :
          { None, Some(Some(<< "hook2" >>)) },
      default_notification_threshold_type : { None, Some(Some("absolute")) },
      default_notification_threshold_value : { None, Some(Some(15)) },
      discord_webhook_url : { None, Some(Some(<< "discord2" >>)) } ]

\* a statement that writes every column of fields_map, NULL for absent keys
SettingsColumnsOverwriteAll(data) ==
    LET pw == IF data.amazon_password # None /\ ~Falsy(data.amazon_password[1])
              THEN { << "amazon_password_encrypted",
                        Some(Encrypt(data.amazon_password[1][1])) >> }
              ELSE {}
    IN  pw \cup { << k, IF data[k] = None THEN None ELSE data[k][1] >> : k \in FieldsMap }

\* the columns of the statement besides user_id, with their values: the
\* encrypted password when the key is present and the password is truthy,
\* every key of fields_map that is present
SettingsColumns(data) ==
    LET pw == IF data.amazon_password # None /\ ~Falsy(data.amazon_password[1])
              THEN { << "amazon_password_encrypted",
                        Some(Encrypt(data.amazon_password[1][1])) >> }
              ELSE {}
    IN  pw \cup { << k, data[k][1] >> : k \in { f \in FieldsMap : data[f] # None } }

\* INSERT INTO user_settings (user_id, cols) VALUES (...)
\* ON CONFLICT (user_id) DO UPDATE SET col = EXCLUDED.col, ...
Upsert(row, cols) ==
    LET old == IF row = None THEN DefaultSettings ELSE row[1]
    IN  Some([ c \in DOMAIN old |->
                 IF \E p \in cols : p[1] = c
                 THEN (CHOOSE p \in cols : p[1] = c)[2] ELSE old[c] ])

\* POST /api/settings/user: with no column besides user_id nothing is
\* written; get_fernet raises when the key was never initialised. The
\* request handled last is kept in reqs.
SaveUserSettings(u, data) ==
    /\ user_settings' =
          IF encKey /\ SettingsColumns(data) # {}
          THEN [user_settings EXCEPT ![u] = Upsert(@, SettingsColumns(data))]
          ELSE user_settings
    /\ reqs' = << [user |-> u, data |-> data] >>
    /\ UNCHANGED << priceVars, today, world, encKey, orders, items, jobs, runs >>
\* One call of get_amazon_price on any of the pages.
InitScrape ==
    /\ today = 1
    /\ world \in [page : Pages]
    /\ user_settings = AllOk
    /\ encKey = TRUE
    /\ orders = EmptyBag
    /\ items = EmptyBag
    /\ jobs = << >>
    /\ reqs = << >>
    /\ runs = << >>
    /\ tracked_items = << >>
    /\ price_history = << >>
    /\ sent = << >>
    /\ cycle = [pc |-> "call", result |-> NoResult]

\* price, title, currency = get_amazon_price(url)
Scrape ==
    /\ cycle.pc = "call"
    /\ cycle' = [pc |-> "returned", result |-> GetAmazonPrice(world.page)]
    /\ UNCHANGED << today, world, user_settings, encKey, orders, items, jobs, reqs,
                    runs, tracked_items, price_history, sent >>

NextScrape == Scrape

SpecScrape == InitScrape /\ [][NextScrape]_vars

\* further price texts
Txt1499 == << "$", "1", "4", ".", "9", "9" >>
Txt80 == << "$", "8", "0", ".", "0", "0" >>
Txt90 == << "$", "9", "0", ".", "0", "0" >>
Txt95 == << "$", "9", "5", ".", "0", "0" >>
Txt100 == << "$", "1", "0", "0", ".", "0", "0" >>

\* a product page titled "Widget" with the given main price elements
ProductPage(offscreen) ==
    [ fails |-> FALSE, available |-> TRUE,
      pageTitle |-> Some(Some(<< "Amazon.com: ", "Widget" >>)),
      productTitle |-> Some(<< "Widget" >>), metaTitle |-> None, ogTitle |-> None,
      h1 |-> None, offscreen |-> offscreen, ourprice |-> None, dealprice |-> None,
      whole |-> None, fraction |-> None ]

PricedPage(text) == ProductPage(<< PriceElem("core", text) >>)

\* the request for the page fails
FailedPage == [ProductPage(<< >>) EXCEPT !.fails = TRUE]

\* the settings row of a user whose price-drop webhook is hook
HookSettings(hook) == Some([DefaultSettings EXCEPT !.price_change_notification_webhook_url = hook])

\* a row of tracked_items as add_tracked_item leaves it, with the columns no
\* statement of the application writes set by other means
TrackedRow(u, url, name, price, ttype, tvalue, custom) ==
    [ user_id |-> u, asin |-> ExtractAsin(url), url |-> url, name |-> name,
      current_price |-> price, last_checked |-> << 1, 0 >>,
      notification_threshold_type |-> ttype, notification_threshold_value |-> tvalue,
      is_custom_name |-> custom ]

\* the history add_tracked_item wrote on day 1 for the rows that have a price
RECURSIVE FirstHistory(_, _)
FirstHistory(rows, n) ==
    IF n = 0 THEN << >>
    ELSE IF rows[n].current_price = None THEN FirstHistory(rows, n - 1)
    ELSE Append(FirstHistory(rows, n - 1),
                [ tracked_item_id |-> n, price |-> rows[n].current_price[1],
                  recorded_at |-> 1 ])

\* The hourly cycle over the days, with user u1 who renames items and user u2
\* who adds one.
\* One item of user u1 exists at the start: named or not, custom-named or
\* not, with a first price or without.
PriceRows ==
    { TrackedRow("u1", "https://a.co/d/short", name, price, None, None, custom) :
        name \in { None, Some(<< "Old name" >>) },
        price \in { None, Some(1999) },
        custom \in BOOLEAN }

\* the pages the urls answer with during the cycles: a failed request, a
\* product page without a price element, and product pages at two prices
PricePages == { FailedPage, ProductPage(<< >>), PricedPage(Txt1999), PricedPage(Txt1499) }

\* the bodies of the add requests of user u2, all for the same product url
DpBodies == { b \in AddBodies : b.url = Some("https://www.amazon.com/dp/B000000001") }

InitPrice ==
    /\ today = 1
    /\ world = [pages |-> PricePages]
    /\ user_settings = [u \in Users |-> HookSettings(Some(<< "hook" >>))]
    /\ encKey = TRUE
    /\ orders = EmptyBag
    /\ items = EmptyBag
    /\ jobs = << >>
    /\ reqs = << >>
    /\ runs = << >>
    /\ \E row \in PriceRows :
          /\ tracked_items = << row >>
          /\ price_history = FirstHistory(<< row >>, 1)
    /\ sent = << >>
    /\ cycle = IdleCycle

NextPrice ==
    \/ CycleStart
    \/ \E page \in world.pages : CycleItem(page)
    \/ \E data \in DpBodies : AddTrackedItem("u2", data, PricedPage(Txt1999))
    \/ \E id \in ItemIds, name \in NewNames : UpdateTrackedItem("u1", id, name)
    \/ NextDay

SpecPrice == InitPrice /\ [][NextPrice]_vars

\* One cycle over one item that has a first price, for every threshold, every
\* webhook setting of its owner and every pair of old and new price.
NotifyPrices == { 1499, 1999, 8000, 9000, 9500, 10000 }

NotifyPages ==
    { PricedPage(t) : t \in { Txt1499, Txt1999, Txt80, Txt90, Txt95, Txt100 } }

InitNotify ==
    /\ today = 1
    /\ world = [pages |-> NotifyPages]
    /\ user_settings \in
          [Users -> { None, HookSettings(None), HookSettings(Some(<< >>)),
                      HookSettings(Some(<< "hook" >>)) }]
    /\ encKey = TRUE
    /\ orders = EmptyBag
    /\ items = EmptyBag
    /\ jobs = << >>
    /\ reqs = << >>
    /\ runs = << >>
    /\ \E price \in NotifyPrices,
          ttype \in { None, Some("percent"), Some("absolute") },
          tvalue \in { None, Some(5), Some(10) } :
          /\ tracked_items =
                << TrackedRow("u1", "https://a.co/d/short", Some(<< "Widget" >>),
                              Some(price), ttype, tvalue, FALSE) >>
          /\ price_history = FirstHistory(tracked_items, 1)
    /\ sent = << >>
    /\ cycle = IdleCycle

NextNotify ==
    \/ CycleStart
    \/ \E page \in world.pages : CycleItem(page)

SpecNotify == InitNotify /\ [][NextNotify]_vars

\* The settings endpoint called again and again by one client, either u1, who
\* has a full row, or u2, who has none.
InitSettings ==
    /\ today = 1
    /\ world \in [client : Users]
    /\ user_settings =
          [u \in Users |->
              IF u = "u1"
              THEN Some(SettingsRow(Some(<< "old@example.com" >>), Some(Encrypt(<< "pw1" >>)),
                                    Some(<< "otp1" >>), Some(<< "hook1" >>),
                                    Some("percent"), Some(10), Some(<< "discord1" >>)))
              ELSE None]
    /\ encKey = TRUE
    /\ orders = EmptyBag
    /\ items = EmptyBag
    /\ jobs = << >>
    /\ reqs = << >>
    /\ runs = << >>
    /\ NoPriceWatch

NextSettings == \E data \in SettingsBodies : SaveUserSettings(world.client, data)

SpecSettings == InitSettings /\ [][NextSettings]_vars

\* Clients that add items with a notification threshold in the request, of
\* type percent and value 10, and the cycles that follow.
ThresholdBodies ==
    { data \in AddBodies : /\ data.notification_threshold_type = Some("percent")
                           /\ data.notification_threshold_value = Some(10) }

InitAdd ==
    /\ today = 1
    /\ world = [pages |-> { FailedPage, PricedPage(Txt100), PricedPage(Txt80) }]
    /\ user_settings = [u \in Users |-> HookSettings(Some(<< "hook" >>))]
    /\ encKey = TRUE
    /\ orders = EmptyBag
    /\ items = EmptyBag
    /\ jobs = << >>
    /\ reqs = << >>
    /\ runs = << >>
    /\ NoPriceWatch

NextAdd ==
    \/ \E u \in Users, data \in ThresholdBodies, page \in world.pages :
          AddTrackedItem(u, data, page)
    \/ CycleStart
    \/ \E page \in world.pages : CycleItem(page)

SpecAdd == InitAdd /\ [][NextAdd]_vars


\* Cycles over the days on one item that has a first price and whose owner
\* has a webhook, for every threshold and three prices.
DropPages == { PricedPage(t) : t \in { Txt1499, Txt1999, Txt100 } }

InitDrop ==
    /\ today = 1
    /\ world = [pages |-> DropPages]
    /\ user_settings = [u \in Users |-> HookSettings(Some(<< "hook" >>))]
    /\ encKey = TRUE
    /\ orders = EmptyBag
    /\ items = EmptyBag
    /\ jobs = << >>
    /\ reqs = << >>
    /\ runs = << >>
    /\ \E price \in { 1499, 1999, 10000 },
          ttype \in { None, Some("percent"), Some("absolute") },
          tvalue \in { None, Some(5), Some(10) } :
          /\ tracked_items =
                << TrackedRow("u1", "https://a.co/d/short", Some(<< "Widget" >>),
                              Some(price), ttype, tvalue, FALSE) >>
          /\ price_history = FirstHistory(tracked_items, 1)
    /\ sent = << >>
    /\ cycle = IdleCycle

NextDrop ==
    \/ CycleStart
    \/ \E page \in world.pages : CycleItem(page)
    \/ NextDay

SpecDrop == InitDrop /\ [][NextDrop]_vars

\* ------------------------------------------- the manual job's notification
\* the settings row of a user with the two notification columns set
NoteSettings(c, hook, pref) == [creds |-> c, sched |-> TRUE, hook |-> hook, pref |-> pref]

\* the admin's row: every webhook (NULL, '', a url) with every preference
\* (NULL, 'always', 'errors_only', 'off'), a row with incomplete
\* credentials, or no row at all
AdminRows ==
    { NoteSettings("ok", hook, pref) :
          hook \in { None, Some(<< >>), Some(<< "hook" >>) },
          pref \in { None, Some("always"), Some("errors_only"), Some("off") } }
    \cup { NoteSettings("incomplete", Some(<< "hook" >>), Some("errors_only")),
           Settings("none", TRUE) }

\* One manual job of either user, called with the arguments its signature
\* declares, for an account with one order whose calls can fail, under every
\* notification setting of the admin.
InitNote ==
    /\ today = 1
    /\ world = [SmallWorld EXCEPT !.faults = TRUE]
    /\ \E row \in AdminRows : user_settings = [AllOk EXCEPT ![AdminUser] = row]
    /\ encKey = TRUE
    /\ \E s \in PriorStores : orders = s.orders /\ items = s.items
    /\ jobs = << >>
    /\ reqs = << >>
    /\ runs = << >>
    /\ NoPriceWatch

NextNote ==
    \/ \E u \in Users, b \in RaceBodies : reqs = << >> /\ RouteCheck(u, b, FALSE)
    \/ \E r \in 1..Len(reqs) : RouteInsert(r)
    \/ \E r \in 1..Len(reqs) : JobCall(r)
    \/ Worker
    \/ Generator

SpecNote == InitNote /\ [][NextNote]_vars
\* ------------------------------------------------------------------ claims
\* the manual worker threads that have finalized their job and not yet ended:
\* the locals of the run are still in place
FinishedManual == { i \in RunIds : runs[i].driver = "manual" /\ runs[i].wpc = "finally" }

JobOf(i) == jobs[runs[i].job]

\* orders of run i whose fetch returned the no-result sentinel
Exhausted(i) == { o \in DOMAIN runs[i].fut : runs[i].fut[o].res = None }

\* orders of run i whose fetch returned a detail with at least one item line
Fetched(i) ==
    { o \in DOMAIN runs[i].fut :
        runs[i].fut[o].res # None /\ Len(runs[i].fut[o].res[1].items) > 0 }

C2_Case(i) ==
    /\ runs[i].total >= 2
    /\ Cardinality(Exhausted(i)) = 1
    /\ Fetched(i) = DOMAIN runs[i].fut \ Exhausted(i)
    /\ runs[i].werr = {}
    /\ runs[i].raised = None
    /\ \A o \in DOMAIN runs[i].fut :
         ~ \E r \in BagToSet(orders) : r.id = o /\ r.user # runs[i].user

\* C2: in a run with N new orders where exactly one fetch fails on all its
\* attempts and the other N-1 succeed with items, the job ends `completed`,
\* the last progress published is {N, N} and exactly N-1 orders are persisted
C2_PartialFailureCompletes ==
    \A i \in FinishedManual :
        C2_Case(i) =>
            /\ JobOf(i).status = "completed"
            /\ JobOf(i).progress = Progress(runs[i].total, runs[i].total)
            /\ Cardinality({ o \in DOMAIN runs[i].fut :
                   CopiesIn(OrderRow(o, runs[i].user), orders) = 1 })
               = runs[i].total - 1

C2_Witness ==
    \E i \in FinishedManual : C2_Case(i) /\ JobOf(i).status = "completed"

\* C3: if persisting one fetched order raises, the remaining completed
\* fetches are still processed and the manual job's final status is
\* `completed`
C3_PersistErrorStillCompleted ==
    \A i \in FinishedManual :
        (runs[i].werr # {} /\ runs[i].exc = None /\ runs[i].raised = None)
            => JobOf(i).status = "completed"

\* the rows of a fetched order are in the committed tables
Stored(o, d) ==
    /\ \E r \in BagToSet(orders) : r.id = o
    /\ \A k \in 1..Len(d.items) :
         \E r \in BagToSet(items) : SameItemKey(r, ItemRow(o, d.items[k], d))

\* C4: if persisting order A raised during a run, every other order B of the
\* run whose own writes executed without error has its order row and item
\* rows stored after the run ends
C4_OtherOrdersStored ==
    \A i \in FinishedManual :
        runs[i].werr # {} =>
            \A b \in Fetched(i) \ runs[i].werr : Stored(b, runs[i].fut[b].res[1])

\* a table holds every row once and no two rows of the same key
UniqueOrders(tbl) ==
    \A a \in BagToSet(tbl) :
        /\ tbl[a] = 1
        /\ \A b \in BagToSet(tbl) : a.id = b.id => a = b
UniqueItems(tbl) ==
    \A a \in BagToSet(tbl) :
        /\ tbl[a] = 1
        /\ \A b \in BagToSet(tbl) : SameItemKey(a, b) => a = b

\* the runs that have submitted their fetch tasks and not yet committed
Fetching == { i \in RunIds : runs[i].tx.open }

\* C5: over repeated runs for the same user each distinct order number is
\* stored at most once and each distinct (order, title, unit price) item at
\* most once; no detail fetch is issued for an order an earlier run persisted
\* for the user; and no stored order row is changed or removed by a later run
C5_Idempotent ==
    /\ [](/\ UniqueOrders(orders) /\ UniqueItems(items)
          /\ \A i \in Fetching :
               /\ UniqueOrders(runs[i].tx.orders) /\ UniqueItems(runs[i].tx.items)
               /\ \A o \in DOMAIN runs[i].fut :
                    CopiesIn(OrderRow(o, runs[i].user), orders) = 0)
    /\ [][/\ \A r \in BagToSet(orders) : CopiesIn(r, orders') = CopiesIn(r, orders)
          /\ \A r \in BagToSet(items) : CopiesIn(r, items') = CopiesIn(r, items)]_vars

\* a second run of the script that found stored orders of the first, filtered
\* them out and has fetched and written another order
C5_Witness ==
    \E i \in Fetching :
        /\ i >= 2
        /\ \E r \in BagToSet(orders) : r.user = runs[i].user
        /\ \E o \in DOMAIN runs[i].fut :
             runs[i].fut[o].taken /\ CopiesIn(OrderRow(o, runs[i].user), runs[i].tx.orders) = 1

\* the log entries of a user of a scheduled job
Entries(log) == { log[k] : k \in DOMAIN log }

\* C6: when settings loading, window planning, login or the transaction
\* listing raises inside the generator, the exception reaches the scheduled
\* driver after the error event and the cleanup, so the driver records the
\* user as `failed` with the error message
C6_SchedulerRecordsFailure ==
    \A j \in JobIds :
        jobs[j].type = "scheduled" =>
            \A u \in DOMAIN jobs[j].users :
                LET e == jobs[j].users[u]
                IN  ("unexpected" \in Entries(e.log) /\ e.status \notin {"pending", "running"})
                        => e.status = "failed" /\ e.error # None

\* C7: when settings loading, login or the transaction listing raises, the
\* manual job is `failed` (never `completed`), its error field carries the
\* exception message, no order detail fetch is issued and the failing step
\* was executed once
C7_SetupFailureFails ==
    \A i \in RunIds :
        (runs[i].driver = "manual" /\ runs[i].exc # None) =>
            /\ JobOf(i).status = "failed"
            /\ JobOf(i).error # None
            /\ (runs[i].raised = None \/ runs[i].wpc = "iter") =>
                   JobOf(i).error = Some(ErrUnexpected(runs[i].exc[1]))
            /\ DOMAIN runs[i].fut = {}
            /\ runs[i].nSettings <= 1 /\ runs[i].nLogin <= 1 /\ runs[i].nList <= 1

C7_Witness ==
    \E i \in FinishedManual :
        /\ runs[i].exc = Some("login_failed")
        /\ JobOf(i).status = "failed"

\* C8: a manual job is created `pending` and its status only moves
\* pending -> running -> {completed, failed}; a terminal status never changes
C8_StatusLifecycle ==
    [][/\ \A j \in JobIds :
            \/ jobs'[j].status = jobs[j].status
            \/ jobs[j].status = "pending" /\ jobs'[j].status = "running"
            \/ jobs[j].status = "running" /\ jobs'[j].status \in {"completed", "failed"}
       /\ \A j \in (1..Len(jobs')) \ JobIds : jobs'[j].status = "pending"]_vars

\* a job that failed on an error event has been through the final status update
C8_Witness ==
    \E i \in FinishedManual : JobOf(i).status = "failed" /\ runs[i].werr # {}

\* C9: every manual job created by a run request reaches `completed` or
\* `failed`: once the worker thread started for it has ended, the job is in a
\* terminal status
C9_WorkerDrivesJobToEnd ==
    \A i \in RunIds :
        (runs[i].driver = "manual" /\ runs[i].wpc \in {"done", "typeerror"}) =>
            JobOf(i).status \in {"completed", "failed"}

\* the latest stored order-placement date of user u, as a set (empty if none)
LatestOf(u) ==
    { r.date : r \in { x \in BagToSet(orders) :
          x.user = u /\ \A y \in BagToSet(orders) : y.user = u => y.date <= x.date } }

\* C10: the number of days requested from the source is the override verbatim
\* when one is supplied; otherwise today minus the user's latest stored
\* order-placement date when the user has a stored order; otherwise 60
C10_DaysRequested ==
    [][\A i \in RunIds :
          (i \in (1..Len(runs')) /\ runs'[i].nList = runs[i].nList + 1) =>
             /\ runs'[i].reqDays # None
             /\ IF runs[i].override # None
                THEN runs'[i].reqDays[1] = runs[i].override[1]
                ELSE IF LatestOf(runs[i].user) # {}
                THEN \A d \in LatestOf(runs[i].user) : runs'[i].reqDays[1] = today - d
                ELSE runs'[i].reqDays[1] = 60]_vars

\* an incremental request: no override, a stored order, a listing asked for
C10_Witness ==
    \E i \in RunIds :
        /\ runs[i].override = None
        /\ runs[i].reqDays = Some(1)
        /\ LatestOf(runs[i].user) # {}

\* the runs whose window planning has succeeded with a non-positive day count
ShortCircuited ==
    { i \in RunIds : /\ runs[i].g \notin {"none", "start", "planned"}
                     /\ runs[i].exc = None
                     /\ runs[i].days <= 0 }

\* C11: whenever the planned day count is <= 0 (a supplied override <= 0
\* included) the run emits the 'up to date' status and ends without login,
\* transaction listing, order fetch, logout or storage write, emits no error
\* event, and the manual job ends `completed`
C11_NonPositiveShortCircuits ==
    /\ [](\A i \in ShortCircuited :
            /\ runs[i].nLogin = 0 /\ runs[i].nList = 0 /\ runs[i].nLogout = 0
            /\ DOMAIN runs[i].fut = {} /\ runs[i].tx = NoTx
            /\ runs[i].raised = None
            /\ runs[i].driver = "manual" =>
                 /\ JobOf(i).log[Len(JobOf(i).log)] = "up_to_date"
                 /\ JobOf(i).error = None
                 /\ runs[i].wpc = "finally" => JobOf(i).status = "completed")
    /\ [][(\E i \in ShortCircuited : TRUE) => orders' = orders /\ items' = items]_vars

\* a finished manual job whose request carried days = 0
C11_Witness ==
    \E i \in FinishedManual :
        /\ i \in ShortCircuited
        /\ runs[i].override = Some(0)
        /\ JobOf(i).status = "completed"

\* the order numbers stored for user u
StoredFor(u) == { r.id : r \in { x \in BagToSet(orders) : x.user = u } }

\* the log entries of a job
JobLog(j) == { jobs[j].log[k] : k \in DOMAIN jobs[j].log }

\* C12: order detail is fetched only for listed order numbers not already
\* stored for the user at dedup time, and when every listed order is already
\* stored the run ends successfully with a status event and no detail fetch
C12_FetchOnlyNewOrders ==
    /\ [][\A i \in RunIds :
            /\ (runs[i].g = "dedup" /\ runs'[i].g # "dedup") =>
                  runs'[i].nums = runs[i].nums \ StoredFor(runs[i].user)
            /\ (DOMAIN runs[i].fut = {} /\ DOMAIN runs'[i].fut # {}) =>
                  /\ DOMAIN runs'[i].fut \subseteq runs[i].nums
                  /\ DOMAIN runs'[i].fut \cap StoredFor(runs[i].user) = {}
            /\ \A o \in OrderNums :
                  (o \in DOMAIN runs'[i].fut /\ runs'[i].fut[o].st = "running")
                      => o \in DOMAIN runs[i].fut]_vars
    /\ [](\A i \in RunIds :
            (/\ runs[i].driver = "manual"
             /\ "found_existing" \in JobLog(runs[i].job)
             /\ runs[i].nums = {}
             /\ runs[i].g \in {"fin", "closing", "ended"}) =>
                /\ DOMAIN runs[i].fut = {}
                /\ "no_new" \in JobLog(runs[i].job)
                /\ runs[i].raised = None => JobOf(i).error = None
                /\ (runs[i].wpc = "finally" /\ runs[i].raised = None)
                       => JobOf(i).status = "completed")

\* a finished job of a user all of whose listed orders were stored
C12_Witness ==
    \E i \in FinishedManual :
        /\ "no_new" \in JobLog(runs[i].job)
        /\ JobOf(i).status = "completed"

\* the number of rows of a table
Rows(tbl) == BagCardinality(tbl)

\* a finished run with override 3 on a store that held nothing before it: two
\* orders listed, both fetched with one item each, no step failed
C13_Case(i) ==
    /\ runs[i].override = Some(3)
    /\ runs[i].total = 2
    /\ \A o \in DOMAIN runs[i].fut :
         runs[i].fut[o].res # None /\ Len(runs[i].fut[o].res[1].items) = 1
    /\ runs[i].werr = {} /\ runs[i].exc = None /\ runs[i].raised = None
    /\ \A r \in BagToSet(orders) : r.user = runs[i].user /\ r.id \in DOMAIN runs[i].fut

\* what the case leaves behind apart from the order of the events
C13_Outcome(i) ==
    /\ JobOf(i).status = "completed"
    /\ Rows(orders) = 2
    /\ Rows(items) = 2
    /\ "Import complete." \in JobLog(runs[i].job)

\* C13: in a run with override 3, empty storage, 2 listed orders and both
\* fetches successful with one item each, the last event emitted is `done`
\* and the job ends `completed` with 2 order rows and 2 item rows
C13_EndsWithDone ==
    \A i \in FinishedManual :
        C13_Case(i) =>
            /\ C13_Outcome(i)
            /\ JobOf(i).log[Len(JobOf(i).log)] = "Import complete."

\* the fetches of a run whose result the completion loop has received
Taken(r) == { o \in DOMAIN r.fut : r.fut[o].taken }

\* C14: within one run with N orders to fetch the published progress values
\* are 0, 1, ..., N in increasing order, one increment per completed fetch
\* (successful or exhausted) in whatever order the workers complete, and max
\* is N in every progress event
C14_ProgressCounts ==
    /\ [][\A i \in RunIds :
            (runs[i].driver = "manual" /\ runs[i].wpc = "iter" /\ i \in DOMAIN runs') =>
              LET p == jobs[runs[i].job].progress
                  q == jobs'[runs[i].job].progress
                  N == Cardinality(runs'[i].nums)
              IN  /\ q # p =>
                       /\ q = Progress(Cardinality(Taken(runs'[i])), N)
                       /\ runs'[i].total = N
                       /\ \/ DOMAIN runs'[i].fut = {} /\ p = Progress(0, 100)
                          \/ /\ p = Progress(Cardinality(Taken(runs[i])), N)
                             /\ Cardinality(Taken(runs'[i])) = Cardinality(Taken(runs[i])) + 1
                  /\ Taken(runs'[i]) # Taken(runs[i]) => q # p]_vars
    /\ [](\A i \in FinishedManual :
            DOMAIN runs[i].fut # {} =>
                JobOf(i).progress = Progress(Cardinality(DOMAIN runs[i].fut),
                                             Cardinality(DOMAIN runs[i].fut)))

\* a finished run of two fetches, one exhausted and one successful
C14_Witness ==
    \E i \in FinishedManual :
        /\ Cardinality(DOMAIN runs[i].fut) = 2
        /\ Cardinality(Exhausted(i)) = 1
        /\ JobOf(i).progress = Progress(2, 2)

\* the attempts of an outcome sequence that succeed
Successes(outs) == { n \in DOMAIN outs : outs[n].ok }

\* C15: for each order to fetch get_order is called at least once and at most
\* 3 times; it is never called again after a successful attempt; a delay is
\* taken only between a failed attempt and the next one (at most 2, none
\* after the third failure); after three failures the task returns the
\* no-result sentinel
C15_RetryDiscipline ==
    /\ [](\A k \in RunIds :
            LET t == runs[k].t
                f == FetchOrderWithRetries(runs[k].outs)
                S == Successes(runs[k].outs)
            IN  /\ t.calls <= 3 /\ t.sleeps <= 2
                /\ t.returned => t = f /\ t.calls >= 1
                /\ ~t.returned => t.sleeps = t.calls /\ t.res = None
                /\ f.returned
                /\ IF S = {}
                   THEN f.calls = 3 /\ f.sleeps = 2 /\ f.res = None
                   ELSE /\ \A n \in S : f.calls <= n
                        /\ f.calls \in S
                        /\ f.sleeps = f.calls - 1
                        /\ f.res = Some(runs[k].outs[f.calls].d))
    /\ [][\A k \in RunIds :
            LET t == runs[k].t
                u == runs'[k].t
            IN  /\ (t.res # None \/ t.returned) => u = t
                /\ u.sleeps # t.sleeps =>
                      /\ u.sleeps = t.sleeps + 1
                      /\ u.calls = t.calls + 1
                      /\ ~runs[k].outs[u.calls].ok
                      /\ ~u.returned]_vars

\* a task that returned the sentinel after three failed calls, beside a task
\* that succeeded on its second call
C15_Witness ==
    \E k, l \in RunIds :
        /\ runs[k].t.returned /\ runs[k].t.res = None /\ runs[k].t.calls = 3
        /\ runs[l].t.returned /\ runs[l].t.res # None /\ runs[l].t.calls = 2

\* the fetch tasks of run i that a pool thread is executing
Executing(i) == { o \in DOMAIN runs[i].fut : runs[i].fut[o].st = "running" }

\* a step of a pool thread of run i: a task starts or returns
PoolStep(i) ==
    \E o \in DOMAIN runs[i].fut :
        /\ o \in DOMAIN runs'[i].fut
        /\ runs'[i].fut[o].st # runs[i].fut[o].st

\* C16: within one run at most 5 order-detail fetch tasks execute at any
\* moment, and window planning, transaction listing and persistence are done
\* by the generator thread only, never by a pool worker
C16_PoolOfFive ==
    /\ [](\A i \in RunIds : Cardinality(Executing(i)) <= 5)
    /\ [][\A i \in RunIds :
            PoolStep(i) =>
                /\ orders' = orders /\ items' = items
                /\ runs'[i].tx = runs[i].tx
                /\ runs'[i].days = runs[i].days
                /\ runs'[i].nList = runs[i].nList
                /\ runs'[i].nums = runs[i].nums
                /\ runs'[i].g = runs[i].g
                /\ runs'[i].processed = runs[i].processed]_vars

\* five tasks execute while a sixth waits in the queue
C16_Witness ==
    \E i \in RunIds :
        /\ Cardinality(Executing(i)) = 5
        /\ \E o \in DOMAIN runs[i].fut : runs[i].fut[o].st = "queued"

\* C17: order writes are made in a transactional scope acquired per order and
\* released at once: whenever the completion loop is between two orders, the
\* rows the run has written so far are committed and visible to other sessions
C17_PerOrderTransaction ==
    \A i \in RunIds :
        (runs[i].tx.open /\ runs[i].g = "wait") =>
            /\ \A r \in BagToSet(runs[i].tx.orders) : CopiesIn(r, orders) >= 1
            /\ \A r \in BagToSet(runs[i].tx.items) : CopiesIn(r, items) >= 1

\* C18: order numbers are unique per owning user: when a run of user U has
\* fetched order X with items and written it without error, storage holds an
\* order X owned by U, whether or not another user owns an order numbered X
C18_OrderNumberPerUser ==
    \A i \in FinishedManual :
        (runs[i].werr = {} /\ runs[i].exc = None /\ runs[i].raised = None) =>
            \A o \in Fetched(i) : CopiesIn(OrderRow(o, runs[i].user), orders) >= 1


\* ------------------------------------------------------------------- C19
\* the call recorded by this step, if the step is a status read or an
\* acknowledgement
CallOfStep ==
    IF Len(reqs') = 2 /\ (Len(reqs) < 2 \/ reqs[2] # reqs'[2])
    THEN Some(reqs'[2]) ELSE None

\* C19: the notification-seen flag of a job is a one-way latch. A set flag is
\* never cleared, a job row is created with the flag unset, and the flag
\* becomes set only in the step of an acknowledgement call that names the job
\* and is made by the job's owner. Every status read that returns a job
\* reports show_notification = TRUE exactly when that job is completed and its
\* flag is still unset.
C19_SeenIsLatch ==
    [][ /\ \A j \in DOMAIN jobs' :
             IF j \in DOMAIN jobs
             THEN /\ jobs[j].seen => jobs'[j].seen
                  /\ (~jobs[j].seen /\ jobs'[j].seen) =>
                        /\ CallOfStep # None
                        /\ CallOfStep[1].pc = "seen"
                        /\ CallOfStep[1].job = Some(j)
                        /\ Some(CallOfStep[1].user) = jobs[j].user
             ELSE ~jobs'[j].seen
        /\ (CallOfStep # None /\ CallOfStep[1].pc = "status"
               /\ CallOfStep[1].resp # None) =>
             LET r == CallOfStep[1].resp[1]
             IN  /\ r.id \in DOMAIN jobs
                 /\ r.show_notification =
                       (jobs[r.id].status = "completed" /\ ~jobs[r.id].seen)
      ]_vars

\* a completed job whose owner has acknowledged it, read back by the owner:
\* the flag is set and the notification is no longer shown
C19_Witness ==
    \E j \in JobIds :
        /\ jobs[j].status = "completed"
        /\ jobs[j].seen
        /\ Len(reqs) = 2
        /\ reqs[2].pc = "status"
        /\ Some(reqs[2].user) = jobs[j].user
        /\ reqs[2].resp = Some([id |-> j, status |-> "completed",
                                show_notification |-> FALSE,
                                notification_seen |-> TRUE])

\* ------------------------------------------------------------------- C20
\* the workers of app.py that are alive and run for user u
LiveWorkers(u) ==
    { i \in RunIds : runs[i].driver = "legacy" /\ runs[i].user = u
                     /\ runs[i].wpc \in {"entry", "iter", "finally"} }

\* C20: with the in-process job map, at any moment at most one worker of a
\* user is alive, and the job_status of a worker that is still running stays
\* the entry the map holds under its user's key (the endpoint pops only an
\* entry that is not running, so only another worker's registration can
\* replace it).
C20_OneWorkerPerUser ==
    /\ \A u \in Users : Cardinality(LiveWorkers(u)) <= 1
    /\ \A i \in RunIds :
         (runs[i].driver = "legacy" /\ runs[i].wpc \in {"iter", "finally"}
            /\ jobs[runs[i].job].status = "running")
         => jobs[runs[i].job].mapped

\* ------------------------------------------------------------------- C24
\* the call has returned
Returned == cycle.pc = "returned"

\* the text of the page's <title>, '' when the page has none
TitleText(page) ==
    IF page.pageTitle = None \/ page.pageTitle[1] = None THEN << >>
    ELSE page.pageTitle[1][1]

\* the title shows one of the block-page markers the spec names
ShowsBlockPage(page) ==
    \E k \in 1..Len(TitleText(page)) :
        TitleText(page)[k] = "CAPTCHA" \/ TitleText(page)[k] = "Robot Check"

\* C24: when the request fails, or the title of the fetched page contains a
\* block-page marker, get_amazon_price returns (None, None, None), whatever
\* title and price elements the page has.
C24_BlockedPageYieldsNothing ==
    (Returned /\ (world.page.fails \/ ShowsBlockPage(world.page)))
    => cycle.result = NoResult

\* a block page that carries a product title and a main price element
C24_Witness ==
    /\ Returned
    /\ ~world.page.fails
    /\ ShowsBlockPage(world.page)
    /\ world.page.productTitle = Some(<< "Widget" >>)
    /\ world.page.offscreen = << PriceElem("core", Txt1999) >>
    /\ cycle.result = NoResult

\* ------------------------------------------------------------------- C28
\* the page of a product that is currently unavailable, whose only price
\* element stands in a similar-items section
UnavailableWithSimilarPrice(page) ==
    /\ ~page.fails
    /\ ~ShowsBlockPage(page)
    /\ page.pageTitle # Some(None)
    /\ ~page.available
    /\ page.productTitle # None
    /\ page.offscreen = << PriceElem("similar", Txt849) >>
    /\ page.ourprice = None /\ page.dealprice = None
    /\ page.whole = None /\ page.fraction = None

\* C28: for a product page that reports the item as currently unavailable
\* and whose only price element belongs to a similar-items section,
\* get_amazon_price returns no price and still returns the product title.
C28_UnavailableHasNoPrice ==
    (Returned /\ UnavailableWithSimilarPrice(world.page))
    => /\ cycle.result.price = None
       /\ cycle.result.title = world.page.productTitle

\* ------------------------------------------------------------------- C21
\* this step is the loop body of the cycle for the item at the head of the
\* snapshot
CycleStep == cycle.pc = "loop" /\ cycle' # cycle

\* the history rows of an item, oldest first
HistoryOf(id) ==
    LET mine(row) == row.tracked_item_id = id
    IN  SelectSeq(price_history, mine)

\* C21: a cycle step whose fetch yields a price appends one history row for
\* the item, at that price and dated today, iff the item has no history, or
\* the price differs from the most recent row's price, or the most recent row
\* is not dated today; otherwise it leaves the history alone. Hence no item
\* has two successive rows of the same price on the same day.
C21_HistoryCompaction ==
    /\ [][ (CycleStep /\ cycle'.got.price # None) =>
              LET id == Head(cycle.queue).id
                  price == cycle'.got.price[1]
                  last == LastEntry(id)
              IN  IF \/ last = None
                     \/ price # last[1].price
                     \/ last[1].recorded_at # today
                  THEN price_history' =
                          Append(price_history, [ tracked_item_id |-> id, price |-> price,
                                                  recorded_at |-> today ])
                  ELSE price_history' = price_history ]_vars
    /\ [](\A id \in ItemIds : \A k \in 1..(Len(HistoryOf(id)) - 1) :
             ~ /\ HistoryOf(id)[k].price = HistoryOf(id)[k + 1].price
               /\ HistoryOf(id)[k].recorded_at = HistoryOf(id)[k + 1].recorded_at)

\* three checks of item 1 at 19.99, the first on day 1 when it was added and
\* the last on day 2, have left one row for each of the two days
C21_Witness ==
    /\ today = 2
    /\ cycle.pc = "idle" /\ cycle.n = 2
    /\ cycle.got.price = Some(1999)
    /\ tracked_items[1].last_checked = << 2, 2 >>
    /\ HistoryOf(1) = << [tracked_item_id |-> 1, price |-> 1999, recorded_at |-> 1],
                         [tracked_item_id |-> 1, price |-> 1999, recorded_at |-> 2] >>

\* ------------------------------------------------------------------- C22
\* C22: a cycle step whose fetch yields no price changes nothing but the
\* last_checked of its item: every other column of the item, every other
\* item, the price history and the notifications sent stay as they are.
C22_FailedFetchTouchesLastCheckedOnly ==
    [][ (CycleStep /\ cycle'.got.price = None) =>
           LET id == Head(cycle.queue).id
           IN  /\ tracked_items' =
                     [tracked_items EXCEPT ![id].last_checked = tracked_items'[id].last_checked]
               /\ tracked_items'[id].last_checked # tracked_items[id].last_checked
               /\ price_history' = price_history
               /\ sent' = sent ]_vars

\* the first cycle found a page with the product's title and no price: the
\* item added at 19.99 under another name still has its name and its price
C22_Witness ==
    /\ cycle.pc = "idle" /\ cycle.n = 1
    /\ cycle.got.price = None
    /\ cycle.got.title = Some(<< "Widget" >>)
    /\ Len(tracked_items) = 1
    /\ tracked_items[1].last_checked = << today, 1 >>
    /\ tracked_items[1].name = Some(<< "Old name" >>)
    /\ ~tracked_items[1].is_custom_name
    /\ tracked_items[1].current_price = Some(1999)
    /\ Len(price_history) = 1

\* ------------------------------------------------------------------- C23
\* the drop from last to price, both in cents, is at least the threshold: a
\* percentage of the prior price for type percent, dollars for type absolute
DropMeetsThreshold(ttype, threshold, last, price) ==
    \/ ttype = Some("percent") /\ (last - price) * 100 >= threshold * last
    \/ ttype = Some("absolute") /\ last - price >= 100 * threshold

\* C23: a cycle step whose fetch yields a price sends one price-drop
\* notification for its item iff the price is lower than the most recent
\* history price, a threshold value is configured on the item, the drop is at
\* least the threshold in the unit of its type, and the owner has a webhook
\* URL; otherwise it sends none.
C23_NotifyIffDropMeetsThreshold ==
    [][ (CycleStep /\ cycle'.got.price # None) =>
           LET item == Head(cycle.queue)
               row == tracked_items[item.id]
               price == cycle'.got.price[1]
               last == LastEntry(item.id)
               hook == WebhookUrl(row.user_id)
               due == /\ last # None
                      /\ price < last[1].price
                      /\ row.notification_threshold_value # None
                      /\ DropMeetsThreshold(row.notification_threshold_type,
                                            row.notification_threshold_value[1],
                                            last[1].price, price)
                      /\ hook # None /\ hook[1] # << >>
           IN  IF due
               THEN /\ Len(sent') = Len(sent) + 1
                    /\ SubSeq(sent', 1, Len(sent)) = sent
                    /\ sent'[Len(sent')].webhook_url = hook[1]
                    /\ sent'[Len(sent')].current_price = price
                    /\ sent'[Len(sent')].previous_price = last[1].price
               ELSE sent' = sent ]_vars

\* ------------------------------------------------------------------- C25
\* C25: a cycle step whose fetch yields a price stores that price and a new
\* last_checked on its item; an item whose is_custom_name flag is true and
\* which has a name keeps the name it has, whatever title was scraped, and an
\* item whose flag is false gets the scraped title as its name.
C25_CustomNameKept ==
    [][ (CycleStep /\ cycle'.got.price # None) =>
           LET id == Head(cycle.queue).id
               row == tracked_items[id]
           IN  /\ tracked_items'[id].current_price = cycle'.got.price
               /\ tracked_items'[id].last_checked # row.last_checked
               /\ (row.is_custom_name /\ ~Falsy(row.name))
                     => tracked_items'[id].name = row.name
               /\ ~row.is_custom_name
                     => tracked_items'[id].name = cycle'.got.title ]_vars

\* ------------------------------------------------------------------- C29
\* the name the clients of this model give an item through the update
\* operation; no page carries it as a title
UserName == Some(<< "My widget" >>)

\* C29: once an item has been renamed through the update operation, a cycle
\* started afterwards keeps that name: a cycle step whose snapshot already
\* shows the user's name leaves the name of the item as it is.
C29_RenameSurvivesCycles ==
    [][ (CycleStep /\ Head(cycle.queue).current_name = UserName
                   /\ tracked_items[Head(cycle.queue).id].name = UserName)
           => tracked_items'[Head(cycle.queue).id].name = UserName ]_vars

\* ------------------------------------------------------------------- C26
\* C26: when every add request carries the threshold type percent and the
\* value 10, every tracked item has that type and value stored, and a cycle
\* that sees the price of such an item fall from 100 to 80 notifies its owner.
C26_AddStoresThreshold ==
    /\ \A id \in ItemIds :
          /\ tracked_items[id].notification_threshold_type = Some("percent")
          /\ tracked_items[id].notification_threshold_value = Some(10)
    /\ \A id \in ItemIds :
          (\E k \in 1..(Len(HistoryOf(id)) - 1) :
              HistoryOf(id)[k].price = 10000 /\ HistoryOf(id)[k + 1].price = 8000)
          => \E k \in 1..Len(sent) : sent[k].url = tracked_items[id].url

\* ------------------------------------------------------------------- C27
\* the value column c has after a save with body data, given the value it had
PatchedColumn(c, data, before) ==
    IF c = "amazon_password_encrypted"
    THEN IF data.amazon_password = None \/ data.amazon_password[1] = None
              \/ data.amazon_password[1][1] = << >>
         THEN before
         ELSE Some([fernet |-> data.amazon_password[1][1]])
    ELSE IF c = "discord_webhook_url" THEN before
    ELSE IF data[c] = None THEN before ELSE data[c][1]

\* the body has no key that is copied to a column
NothingToSave(data) ==
    /\ data.amazon_password = None \/ data.amazon_password[1] = None
          \/ data.amazon_password[1][1] = << >>
    /\ data.amazon_email = None
    /\ data.amazon_otp_secret_key = None
    /\ data.price_change_notification_webhook_url = None
    /\ data.default_notification_threshold_type = None
    /\ data.default_notification_threshold_value = None

\* C27: saving user settings overwrites exactly the columns whose keys are in
\* the request and leaves every other stored setting of that user, and every
\* setting of the other users, unchanged; an empty password does not replace
\* the stored one; a request with no recognised field writes nothing.
C27_SettingsPatch ==
    [][ LET u == reqs'[1].user
            data == reqs'[1].data
        IN  /\ \A v \in Users \ {u} : user_settings'[v] = user_settings[v]
            /\ IF NothingToSave(data)
               THEN user_settings'[u] = user_settings[u]
               ELSE /\ user_settings'[u] # None
                    /\ \A c \in DOMAIN user_settings'[u][1] :
                          user_settings'[u][1][c] =
                             PatchedColumn(c, data,
                                IF user_settings[u] = None THEN None
                                ELSE user_settings[u][1][c]) ]_vars

\* u1 sent a new e-mail address together with an empty password and an
\* unknown key: the address is stored, the password and the other columns
\* are the old ones
C27_Witness ==
    /\ reqs # << >>
    /\ reqs[1].user = "u1"
    /\ reqs[1].data.amazon_email = Some(Some(<< "new@example.com" >>))
    /\ reqs[1].data.amazon_password = Some(Some(<< >>))
    /\ reqs[1].data.discord_webhook_url # None
    /\ reqs[1].data.price_change_notification_webhook_url = None
    /\ user_settings["u1"][1].amazon_email = Some(<< "new@example.com" >>)
    /\ user_settings["u1"][1].amazon_password_encrypted = Some([fernet |-> << "pw1" >>])
    /\ user_settings["u1"][1].price_change_notification_webhook_url = Some(<< "hook1" >>)
    /\ user_settings["u1"][1].discord_webhook_url = Some(<< "discord1" >>)
    /\ user_settings["u2"] = None

\* C30: in a run whose generator is drained to its end, logout is called once
\* when a session object was constructed and not at all otherwise (a run that
\* ends before login has none); the call comes when every fetch task has
\* finished and no later than the end of the generator, whatever the exit path.
C30_LogoutOncePerSession ==
    \A i \in DOMAIN runs :
        LET r == runs[i]
        IN  r.wpc = "iter" =>
              /\ r.nLogout <= 1
              /\ r.nLogin = 0 => r.nLogout = 0
              /\ r.nLogout = 1 =>
                    /\ r.session
                    /\ r.g \in {"closing", "ended"}
                    /\ \A o \in DOMAIN r.fut : r.fut[o].st = "done"
              /\ r.g = "ended" => r.nLogout = (IF r.session THEN 1 ELSE 0)

\* a run whose login failed has been drained, and its session was logged out
C30_Witness ==
    \E i \in DOMAIN runs :
        /\ runs[i].wpc = "iter"
        /\ runs[i].g = "ended"
        /\ runs[i].exc = Some("login_failed")
        /\ runs[i].nList = 0
        /\ runs[i].nLogout = 1

\* ------------------------------------------------- the scheduled run, again
\* the step in which the scheduled driver i leaves the inner try of its user
EndUserStep(i) ==
    /\ runs[i].driver = "scheduled"
    /\ runs[i].wpc = "iter"
    /\ runs'[i].wpc = "loop"

\* C31: when an exception leaves the generator of one user of a scheduled
\* run, that user alone is stored as `failed` with the message of the
\* exception, the entries of the other users are left as they are and the
\* job stays `running`; the job ends `completed` with progress current =
\* total and every user of the run processed (`completed` or `failed`)
C31_FailureIsolatedToUser ==
    /\ [][\A i \in RunIds :
             (EndUserStep(i) /\ runs[i].raised # None) =>
                 LET j == runs[i].job
                     u == runs[i].user
                 IN  /\ jobs'[j].users[u].status = "failed"
                     /\ jobs'[j].users[u].error = Some(ErrRaised(runs[i].raised[1]))
                     /\ \A v \in DOMAIN jobs[j].users \ {u} :
                            jobs'[j].users[v] = jobs[j].users[v]
                     /\ jobs'[j].status = "running"]_vars
    /\ [](\A j \in JobIds :
             jobs[j].type = "scheduled" =>
                 /\ jobs[j].status \in {"pending", "running", "completed"}
                 /\ jobs[j].status = "completed" =>
                        /\ jobs[j].progress =
                              SchedProgress(Cardinality(DOMAIN jobs[j].users),
                                            Cardinality(DOMAIN jobs[j].users))
                        /\ \A u \in DOMAIN jobs[j].users :
                               jobs[j].users[u].status \in {"completed", "failed"})

\* the first user of a run failed and the second one was processed to its end
C31_Witness ==
    \E i \in RunIds :
        /\ runs[i].driver = "scheduled"
        /\ runs[i].wpc = "loop"
        /\ runs[i].idx = 2
        /\ runs[i].umap[runs[i].ulist[1]].status = "failed"
        /\ runs[i].umap[runs[i].ulist[2]].status = "completed"
        /\ runs[i].umap[runs[i].ulist[2]].log # << >>

\* ------------------------------------------------- the manual job, again
\* the threads of manual jobs that have left the try block of the worker
AtEnd == { i \in RunIds : runs[i].driver = "manual" /\ runs[i].wpc \in {"finally", "done"} }

\* C32: at the end of a manual run the job is `completed` or `failed`; it is
\* `failed` exactly when its error field is not null, so a `completed` job
\* has no error; and a notification sent for the job is titled "Failed"
\* exactly when the job is `failed`
C32_FailedIffError ==
    /\ \A i \in AtEnd :
          LET row == jobs[runs[i].job]
          IN  /\ row.status \in {"completed", "failed"}
              /\ row.status = "failed" <=> row.error # None
              /\ row.status = "completed" => row.error = None
    /\ \A k \in DOMAIN sent :
          /\ sent[k].title \in {"Manual Ingestion Job Failed", "Manual Ingestion Job Completed"}
          /\ sent[k].title = "Manual Ingestion Job Failed" <=> jobs[sent[k].job].status = "failed"

\* a failed job with its error stored, announced as failed, and the run is over
C32_Witness ==
    \E i \in AtEnd, k \in DOMAIN sent :
        /\ runs[i].wpc = "done"
        /\ sent[k].job = runs[i].job
        /\ sent[k].title = "Manual Ingestion Job Failed"
        /\ jobs[runs[i].job].status = "failed"
        /\ jobs[runs[i].job].error # None

\* the step in which the worker i of a manual job runs its finally block
FinallyStep(i) ==
    /\ runs[i].driver = "manual"
    /\ runs[i].wpc = "finally"
    /\ runs'[i].wpc = "done"

\* the admin has a settings row whose webhook url is neither NULL nor ''
AdminHookSet ==
    LET s == user_settings[AdminUser]
    IN  /\ s.creds # "none"
        /\ "hook" \in DOMAIN s
        /\ s.hook # None
        /\ s.hook[1] # << >>

\* the admin's preference asks for a notification of a job with or without error
AdminWants(err) ==
    LET s == user_settings[AdminUser]
    IN  \/ s.pref = Some("always")
        \/ s.pref = Some("errors_only") /\ err

\* C39: the finally block of a manual job calls the notification sender once
\* for the job, with the admin's webhook, exactly when that webhook is set
\* and the preference is `always`, or `errors_only` and the job has an error;
\* otherwise it sends nothing; and whether or not the send succeeds the job
\* row is left as it is
C39_NotifyByPreference ==
    [][\A i \in RunIds :
          FinallyStep(i) =>
              LET j == runs[i].job
                  err == jobs[j].error # None
                  expected == AdminHookSet /\ AdminWants(err)
              IN  /\ jobs' = jobs
                  /\ ~expected => sent' = sent
                  /\ expected =>
                        /\ Len(sent') = Len(sent) + 1
                        /\ SubSeq(sent', 1, Len(sent)) = sent
                        /\ sent'[Len(sent')].job = j
                        /\ sent'[Len(sent')].webhook_url = user_settings[AdminUser].hook[1]]_vars

\* a job with an error was announced under `errors_only`, the POST failed, and
\* the job is stored as failed
C39_Witness ==
    \E k \in DOMAIN sent :
        /\ ~sent[k].delivered
        /\ user_settings[AdminUser].pref = Some("errors_only")
        /\ jobs[sent[k].job].status = "failed"
        /\ \E i \in RunIds : runs[i].job = sent[k].job /\ runs[i].wpc = "done"

\* C33: once the stored status of a manual job is `completed` or `failed`,
\* its progress and its log do not change any more, and its worker, as long
\* as it drives the generator, starts or finishes no fetch and executes no
\* order or item write
C33_TerminalIsQuiet ==
    [][\A j \in JobIds :
          (jobs[j].type = "manual" /\ jobs[j].status \in {"completed", "failed"}) =>
              /\ jobs'[j].progress = jobs[j].progress
              /\ jobs'[j].log = jobs[j].log
              /\ \A i \in RunIds :
                    (runs[i].driver = "manual" /\ runs[i].job = j
                        /\ runs[i].wpc = "iter" /\ runs'[i].wpc = "iter") =>
                        /\ runs'[i].fut = runs[i].fut
                        /\ runs'[i].tx = runs[i].tx
                        /\ runs'[i].nList = runs[i].nList]_vars

\* the orders run i wrote without error: fetched with at least one item, and
\* their try-block raised nothing
WrittenOk(i) ==
    { o \in DOMAIN runs[i].fut :
          /\ runs[i].fut[o].taken
          /\ runs[i].fut[o].res # None
          /\ Len(runs[i].fut[o].res[1].items) > 0
          /\ o \notin runs[i].werr }

\* order o and every item line of it are rows of the committed tables
Visible(o, d) ==
    /\ \E r \in BagToSet(orders) : r.id = o
    /\ \A k \in DOMAIN d.items :
          \E r \in BagToSet(items) :
              r.order = o /\ r.title = d.items[k].title /\ r.price = d.items[k].price

\* C34: whenever a manual job is stored as `completed`, the transaction of
\* its run is closed and every order the run wrote without error, with its
\* items, is in the committed tables
C34_CompletedAfterCommit ==
    \A i \in RunIds :
        (runs[i].driver = "manual" /\ runs[i].wpc \in {"iter", "finally"}
            /\ jobs[runs[i].job].status = "completed") =>
            /\ ~runs[i].tx.open
            /\ \A o \in WrittenOk(i) : Visible(o, runs[i].fut[o].res[1])

\* a completed job whose run wrote two orders
C34_Witness ==
    \E i \in RunIds :
        /\ runs[i].driver = "manual"
        /\ runs[i].wpc = "finally"
        /\ jobs[runs[i].job].status = "completed"
        /\ Cardinality(WrittenOk(i)) = 2
        /\ \A o \in WrittenOk(i) : Visible(o, runs[i].fut[o].res[1])

\* ------------------------------------------------- the price watch, again
\* C35: for every tracked item, current_price is null exactly when the item
\* has no price-history row, and otherwise it is the price of the item's
\* most recent history row
C35_CurrentPriceIsLastHistory ==
    \A id \in ItemIds :
        LET h == HistoryOf(id)
        IN  /\ tracked_items[id].current_price = None <=> h = << >>
            /\ h # << >> => tracked_items[id].current_price = Some(h[Len(h)].price)

\* after two cycles an item has two history rows at different prices, and
\* its current price is the later one
C35_Witness ==
    \E id \in ItemIds :
        /\ Len(HistoryOf(id)) = 2
        /\ HistoryOf(id)[1].price # HistoryOf(id)[2].price
        /\ tracked_items[id].current_price = Some(HistoryOf(id)[2].price)
        /\ cycle.n = 2
        /\ cycle.pc = "idle"

\* C36: a cycle step sends a notification only for a price it fetched, and
\* then that price is the item's most recent history row afterwards; and a
\* step that fetches the price of the item's most recent history row sends
\* nothing.  So after a notified drop to p, cycles that fetch p again send
\* no further notification.
C36_DropNotifiedOnce ==
    [][ CycleStep =>
           LET id == Head(cycle.queue).id
               h == HistoryOf(id)
               got == cycle'.got.price
           IN  /\ sent' # sent =>
                     /\ got # None
                     /\ Len(sent') = Len(sent) + 1
                     /\ SubSeq(sent', 1, Len(sent)) = sent
                     /\ sent'[Len(sent')].current_price = got[1]
                     /\ price_history' # << >>
                     /\ price_history'[Len(price_history')] =
                           [ tracked_item_id |-> id, price |-> got[1], recorded_at |-> today ]
               /\ (got # None /\ h # << >> /\ h[Len(h)].price = got[1]) => sent' = sent ]_vars

\* the drop from 19.99 to 14.99 was notified in the cycle of day 1; the cycle
\* of day 2 fetched 14.99 again, recorded it for the new day and sent nothing
C36_Witness ==
    /\ cycle.pc = "idle" /\ cycle.n = 2
    /\ today = 2
    /\ HistoryOf(1) = << [tracked_item_id |-> 1, price |-> 1999, recorded_at |-> 1],
                         [tracked_item_id |-> 1, price |-> 1499, recorded_at |-> 1],
                         [tracked_item_id |-> 1, price |-> 1499, recorded_at |-> 2] >>
    /\ Len(sent) = 1
    /\ sent[1].current_price = 1499
    /\ sent[1].previous_price = 1999

\* ------------------------------------------------- the stored orders, again
\* C37: every row of the committed orders table has at least one row of the
\* committed items table
C37_EveryOrderHasItems ==
    \A r \in BagToSet(orders) : \E it \in BagToSet(items) : it.order = r.id

\* the users of scheduled job j stored with the given status
UsersAt(j, status) == { u \in DOMAIN jobs[j].users : jobs[j].users[u].status = status }

\* C38: in the stored row of a scheduled job at most one user is `running`,
\* the stored progress has current <= total, and a `completed` job has no
\* `pending` or `running` user; from one stored row to the next each user's
\* status stays or moves pending -> running or running -> completed/failed,
\* and progress current does not decrease
C38_ScheduledMapLifecycle ==
    /\ [](\A j \in JobIds :
             jobs[j].type = "scheduled" =>
                 /\ Cardinality(UsersAt(j, "running")) <= 1
                 /\ jobs[j].progress # None =>
                        /\ jobs[j].progress[1].current >= 0
                        /\ jobs[j].progress[1].current <= jobs[j].progress[1].total
                 /\ jobs[j].status = "completed" =>
                        UsersAt(j, "pending") \cup UsersAt(j, "running") = {})
    /\ [][\A j \in JobIds :
             jobs[j].type = "scheduled" =>
                 /\ \A u \in DOMAIN jobs[j].users :
                        LET old == jobs[j].users[u].status
                            new == jobs'[j].users[u].status
                        IN  \/ new = old
                            \/ old = "pending" /\ new = "running"
                            \/ old = "running" /\ new \in {"completed", "failed"}
                 /\ jobs[j].progress # None =>
                        /\ jobs'[j].progress # None
                        /\ jobs'[j].progress[1].current >= jobs[j].progress[1].current
                        /\ jobs'[j].progress[1].total = jobs[j].progress[1].total]_vars

\* a completed run over two users: one completed, one failed, progress 2 of 2
C38_Witness ==
    \E j \in JobIds :
        /\ jobs[j].type = "scheduled"
        /\ jobs[j].status = "completed"
        /\ jobs[j].progress = Some([current |-> 2, total |-> 2])
        /\ UsersAt(j, "completed") # {}
        /\ UsersAt(j, "failed") # {}

\* ------------------------------------------------------------------- C40
\* C40: status reads and acknowledgements are confined to the caller's own
\* jobs. A status read made by a user, with or without a job id, never
\* returns a job whose owner is another user or no user, and the step of an
\* acknowledgement call leaves the notification-seen flag of every job the
\* caller does not own as it was.
C40_OwnJobsOnly ==
    [][ CallOfStep # None =>
          LET call == CallOfStep[1]
          IN  /\ (call.pc = "status" /\ call.resp # None) =>
                    /\ call.resp[1].id \in DOMAIN jobs
                    /\ jobs[call.resp[1].id].user = Some(call.user)
              /\ call.pc = "seen" =>
                    \A j \in DOMAIN jobs :
                        jobs[j].user # Some(call.user) =>
                            jobs'[j].seen = jobs[j].seen
      ]_vars

\* a user has passed the id of a completed, unacknowledged job of another
\* user to the status route and was answered that there is no such job
C40_Witness ==
    /\ Len(reqs) = 2
    /\ reqs[2].pc = "status"
    /\ reqs[2].job # None
    /\ reqs[2].job[1] \in JobIds
    /\ jobs[reqs[2].job[1]].user # None
    /\ jobs[reqs[2].job[1]].user # Some(reqs[2].user)
    /\ jobs[reqs[2].job[1]].status = "completed"
    /\ ~jobs[reqs[2].job[1]].seen
    /\ reqs[2].resp = None
====
